---- MODULE Spec2Model ----
(***************************************************************************)
(* A model of the soulgraph client library: the serde data model (typed   *)
(* records and their JSON form), the builders, and the resource client    *)
(* protocol (get / create / update / delete over the HTTP transport).     *)
(*                                                                         *)
(* Conventions                                                             *)
(*   Option<T>      a sequence of length at most one: <<>> is None and     *)
(*                  <<x>> is Some(x)                                       *)
(*   Result<T, E>   [ok |-> TRUE, val |-> x]  or  [ok |-> FALSE, err |-> e]*)
(*   f32            an integer number of tenths (0.5 is 5)                 *)
(*   JSON value     a record [t |-> tag, v |-> payload], tags "null",      *)
(*                  "str", "int", "float", "arr", "obj", and "invalid"     *)
(*                  for a body that is not JSON at all                     *)
(***************************************************************************)
EXTENDS Integers, Sequences, FiniteSets, TLC

(***************************************************************************)
(* Bounds of the model.                                                    *)
(***************************************************************************)
MaxClients == 2
MaxTraits == 2

(***************************************************************************)
(* Option and Result.                                                      *)
(***************************************************************************)
None == <<>>
Some(x) == <<x>>
Ok(x) == [ok |-> TRUE, val |-> x]
Err(e) == [ok |-> FALSE, err |-> e]
Unit == [t |-> "unit"]

(***************************************************************************)
(* JSON values.                                                            *)
(***************************************************************************)
JNull == [t |-> "null", v |-> <<>>]
JInvalid == [t |-> "invalid", v |-> <<>>]
JStr(s) == [t |-> "str", v |-> s]
JInt(n) == [t |-> "int", v |-> n]
JFloat(n) == [t |-> "float", v |-> n]
JArr(s) == [t |-> "arr", v |-> s]
JObj(f) == [t |-> "obj", v |-> f]

EmptyMap == [k \in {} |-> k]
\* one entry of an encoded object for an Option field with
\* skip_serializing_if = "Option::is_none": nothing when the option is None
SkipIfNone(k, o) == IF o = None THEN EmptyMap ELSE (k :> o[1])
\* one entry for an Option field without the attribute: None is written as null
NullIfNone(k, o) == IF o = None THEN (k :> JNull) ELSE (k :> o[1])

HasKey(j, k) == k \in DOMAIN j.v
\* an Option field is Some when the key is there and its value is not null
Present(j, k) == HasKey(j, k) /\ j.v[k].t # "null"
IsObj(j) == j.t = "obj"
StrOk(j, k) == HasKey(j, k) /\ j.v[k].t = "str"
F32Ok(j, k) == HasKey(j, k) /\ j.v[k].t \in {"float", "int"}
F32Val(j, k) == IF j.v[k].t = "int" THEN 10 * j.v[k].v ELSE j.v[k].v
\* f32: a finite number is its value in tenths.  NaN stands for the f32 that
\* is no number: it is below nothing, above nothing and inside no interval.
NaN == 999999
\* f32::clamp: NaN stays NaN
f32_clamp(x, min, max) ==
    IF x = NaN THEN NaN
    ELSE IF x < min THEN min
    ELSE IF x > max THEN max
    ELSE x
\* serialize_f32 writes a number, and null for a value that is not finite
EncF32(x) == IF x = NaN THEN JNull ELSE JFloat(x)
I64Ok(j, k) == HasKey(j, k) /\ j.v[k].t = "int"
IsVecStr(a) == a.t = "arr" /\ \A i \in 1..Len(a.v) : a.v[i].t = "str"
VecStrVal(a) == [i \in 1..Len(a.v) |-> a.v[i].v]
VecStrOk(j, k) == HasKey(j, k) /\ IsVecStr(j.v[k])
EncVecStr(s) == JArr([i \in 1..Len(s) |-> JStr(s[i])])

(***************************************************************************)
(* Uuid: the typed value is the canonical (lower-case, hyphenated) text.   *)
(* Uuid::parse_str also reads other spellings of the same identifier.      *)
(***************************************************************************)
UuidA == "550e8400-e29b-41d4-a716-446655440000"
UuidB == "67e55044-10b1-426f-9247-bb680e5fe0c8"
UuidSpellings ==
    (UuidA :> UuidA) @@ (UuidB :> UuidB) @@
    ("550E8400-E29B-41D4-A716-446655440000" :> UuidA)
IsUuid(a) == a.t = "str" /\ a.v \in DOMAIN UuidSpellings
ParseUuid(a) == UuidSpellings[a.v]
OptUuidOk(j, k) == Present(j, k) => IsUuid(j.v[k])
OptUuidVal(j, k) == IF Present(j, k) THEN Some(ParseUuid(j.v[k])) ELSE None
EncOptUuid(o) == IF o = None THEN None ELSE Some(JStr(o[1]))

(***************************************************************************)
(* Trait (personality/traits.rs).                                          *)
(***************************************************************************)
TraitOk(j) ==
    /\ IsObj(j)
    /\ OptUuidOk(j, "id")
    /\ StrOk(j, "trait")
    /\ F32Ok(j, "strength")
    /\ Present(j, "expression_rules") => IsVecStr(j.v["expression_rules"])
TraitVal(j) ==
    [id |-> OptUuidVal(j, "id"),
     trait |-> j.v["trait"].v,
     strength |-> F32Val(j, "strength"),
     expression_rules |-> IF Present(j, "expression_rules")
                          THEN Some(VecStrVal(j.v["expression_rules"]))
                          ELSE None]
EncTrait(x) ==
    JObj(SkipIfNone("id", EncOptUuid(x.id))
         @@ [trait |-> JStr(x.trait), strength |-> EncF32(x.strength)]
         @@ SkipIfNone("expression_rules",
                       IF x.expression_rules = None THEN None
                       ELSE Some(EncVecStr(x.expression_rules[1]))))

(***************************************************************************)
(* ValueConflict and Value (personality/value.rs).  Value.importance is a  *)
(* plain f32 field: decoding applies no range check to it.                 *)
(***************************************************************************)
ValueConflictOk(j) ==
    /\ IsObj(j)
    /\ OptUuidOk(j, "id")
    /\ StrOk(j, "value")
    /\ StrOk(j, "resolution")
ValueConflictVal(j) ==
    [id |-> OptUuidVal(j, "id"),
     value |-> j.v["value"].v,
     resolution |-> j.v["resolution"].v]
EncValueConflict(x) ==
    JObj(SkipIfNone("id", EncOptUuid(x.id))
         @@ [value |-> JStr(x.value), resolution |-> JStr(x.resolution)])

ValueOk(j) ==
    /\ IsObj(j)
    /\ OptUuidOk(j, "id")
    /\ StrOk(j, "name")
    /\ F32Ok(j, "importance")
    /\ StrOk(j, "expression")
    /\ Present(j, "conflicts") =>
          /\ j.v["conflicts"].t = "arr"
          /\ \A i \in 1..Len(j.v["conflicts"].v) :
                ValueConflictOk(j.v["conflicts"].v[i])
\* variant: an empty conflicts list is read as an absent one
ValueVal_EmptyAsAbsent(j) ==
    [id |-> OptUuidVal(j, "id"),
     name |-> j.v["name"].v,
     importance |-> F32Val(j, "importance"),
     expression |-> j.v["expression"].v,
     conflicts |-> IF Present(j, "conflicts") /\ j.v["conflicts"].v # <<>>
                   THEN Some([i \in 1..Len(j.v["conflicts"].v) |->
                                 ValueConflictVal(j.v["conflicts"].v[i])])
                   ELSE None]
ValueVal(j) ==
    [id |-> OptUuidVal(j, "id"),
     name |-> j.v["name"].v,
     importance |-> F32Val(j, "importance"),
     expression |-> j.v["expression"].v,
     conflicts |-> IF Present(j, "conflicts")
                   THEN Some([i \in 1..Len(j.v["conflicts"].v) |->
                                 ValueConflictVal(j.v["conflicts"].v[i])])
                   ELSE None]
EncValue(x) ==
    JObj(SkipIfNone("id", EncOptUuid(x.id))
         @@ [name |-> JStr(x.name),
             importance |-> EncF32(x.importance),
             expression |-> JStr(x.expression)]
         @@ SkipIfNone("conflicts",
                       IF x.conflicts = None THEN None
                       ELSE Some(JArr([i \in 1..Len(x.conflicts[1]) |->
                                          EncValueConflict(x.conflicts[1][i])]))))

(***************************************************************************)
(* Voice (personality/voice.rs).                                           *)
(***************************************************************************)
VoiceOk(j) ==
    /\ IsObj(j)
    /\ OptUuidOk(j, "id")
    /\ StrOk(j, "style")
    /\ StrOk(j, "tone")
    /\ VecStrOk(j, "qualities")
    /\ VecStrOk(j, "patterns")
VoiceVal(j) ==
    [id |-> OptUuidVal(j, "id"),
     style |-> j.v["style"].v,
     tone |-> j.v["tone"].v,
     qualities |-> VecStrVal(j.v["qualities"]),
     patterns |-> VecStrVal(j.v["patterns"])]
EncVoice(x) ==
    JObj(SkipIfNone("id", EncOptUuid(x.id))
         @@ [style |-> JStr(x.style),
             tone |-> JStr(x.tone),
             qualities |-> EncVecStr(x.qualities),
             patterns |-> EncVecStr(x.patterns)])

(***************************************************************************)
(* EnforcementType, Boundary and Relationship                              *)
(* (personality/relationship.rs).                                          *)
(***************************************************************************)
EnforcementType == {"Strict", "Flexible", "Situational"}
\* #[serde(rename_all = "lowercase")]
\* variant: the variant names are written as they are spelled in the enum
EnforcementTag_Capitalised == [Strict |-> "Strict", Flexible |-> "Flexible",
                               Situational |-> "Situational"]
EnforcementTag == [Strict |-> "strict", Flexible |-> "flexible",
                   Situational |-> "situational"]
EnforcementOk(a) == a.t = "str" /\ \E e \in EnforcementType : EnforcementTag[e] = a.v
EnforcementVal(a) == CHOOSE e \in EnforcementType : EnforcementTag[e] = a.v
EncEnforcement(e) == JStr(EnforcementTag[e])

BoundaryOk(j) ==
    /\ IsObj(j)
    /\ OptUuidOk(j, "id")
    /\ StrOk(j, "type")
    /\ StrOk(j, "description")
    /\ HasKey(j, "enforcement")
    /\ EnforcementOk(j.v["enforcement"])
BoundaryVal(j) ==
    [id |-> OptUuidVal(j, "id"),
     type |-> j.v["type"].v,
     description |-> j.v["description"].v,
     enforcement |-> EnforcementVal(j.v["enforcement"])]
EncBoundary(x) ==
    JObj(SkipIfNone("id", EncOptUuid(x.id))
         @@ [type |-> JStr(x.type),
             description |-> JStr(x.description),
             enforcement |-> EncEnforcement(x.enforcement)])

RelationshipOk(j) ==
    /\ IsObj(j)
    /\ OptUuidOk(j, "id")
    /\ StrOk(j, "style")
    /\ HasKey(j, "boundaries")
    /\ j.v["boundaries"].t = "arr"
    /\ \A i \in 1..Len(j.v["boundaries"].v) : BoundaryOk(j.v["boundaries"].v[i])
RelationshipVal(j) ==
    [id |-> OptUuidVal(j, "id"),
     style |-> j.v["style"].v,
     boundaries |-> [i \in 1..Len(j.v["boundaries"].v) |->
                        BoundaryVal(j.v["boundaries"].v[i])]]
EncRelationship(x) ==
    JObj(SkipIfNone("id", EncOptUuid(x.id))
         @@ [style |-> JStr(x.style),
             boundaries |-> JArr([i \in 1..Len(x.boundaries) |->
                                     EncBoundary(x.boundaries[i])])])

(***************************************************************************)
(* Personality (personality.rs).  `traits` is a plain Vec<Trait>: an empty *)
(* array decodes.  metadata is Option<HashMap<String, String>>.            *)
(***************************************************************************)
IsStrMap(a) == a.t = "obj" /\ \A k \in DOMAIN a.v : a.v[k].t = "str"
StrMapVal(a) == [k \in DOMAIN a.v |-> a.v[k].v]
EncStrMap(m) == JObj([k \in DOMAIN m |-> JStr(m[k])])

PersonalityOk(j) ==
    /\ IsObj(j)
    /\ OptUuidOk(j, "id")
    /\ StrOk(j, "name")
    /\ HasKey(j, "traits")
    /\ (j.v["traits"].t = "arr" /\ \A i \in 1..Len(j.v["traits"].v) : TraitOk(j.v["traits"].v[i]))
    /\ Present(j, "values") => (j.v["values"].t = "arr" /\ \A i \in 1..Len(j.v["values"].v) : ValueOk(j.v["values"].v[i]))
    /\ Present(j, "voice") => VoiceOk(j.v["voice"])
    /\ Present(j, "relationship") => RelationshipOk(j.v["relationship"])
    /\ Present(j, "metadata") => IsStrMap(j.v["metadata"])
PersonalityVal(j) ==
    [id |-> OptUuidVal(j, "id"),
     name |-> j.v["name"].v,
     traits |-> [i \in 1..Len(j.v["traits"].v) |-> TraitVal(j.v["traits"].v[i])],
     values |-> IF Present(j, "values")
                THEN Some([i \in 1..Len(j.v["values"].v) |->
                              ValueVal(j.v["values"].v[i])])
                ELSE None,
     voice |-> IF Present(j, "voice") THEN Some(VoiceVal(j.v["voice"])) ELSE None,
     relationship |-> IF Present(j, "relationship")
                      THEN Some(RelationshipVal(j.v["relationship"]))
                      ELSE None,
     metadata |-> IF Present(j, "metadata")
                  THEN Some(StrMapVal(j.v["metadata"]))
                  ELSE None]
EncPersonality(x) ==
    JObj(SkipIfNone("id", EncOptUuid(x.id))
         @@ [name |-> JStr(x.name),
             traits |-> JArr([i \in 1..Len(x.traits) |-> EncTrait(x.traits[i])])]
         @@ SkipIfNone("values",
                       IF x.values = None THEN None
                       ELSE Some(JArr([i \in 1..Len(x.values[1]) |->
                                          EncValue(x.values[1][i])])))
         @@ SkipIfNone("voice",
                       IF x.voice = None THEN None ELSE Some(EncVoice(x.voice[1])))
         @@ SkipIfNone("relationship",
                       IF x.relationship = None THEN None
                       ELSE Some(EncRelationship(x.relationship[1])))
         @@ SkipIfNone("metadata",
                       IF x.metadata = None THEN None
                       ELSE Some(EncStrMap(x.metadata[1]))))

(***************************************************************************)
(* Entity (entity.rs).                                                     *)
(***************************************************************************)
OptStrOk(j, k) == Present(j, k) => j.v[k].t = "str"
OptStrVal(j, k) == IF Present(j, k) THEN Some(j.v[k].v) ELSE None
EncOptStr(o) == IF o = None THEN None ELSE Some(JStr(o[1]))

EntityOk(j) ==
    /\ IsObj(j)
    /\ OptUuidOk(j, "id")
    /\ StrOk(j, "form")
    /\ StrOk(j, "occupation")
    /\ OptStrOk(j, "gender")
    /\ OptStrOk(j, "age")
    /\ OptStrOk(j, "background")
    /\ Present(j, "expertise") => IsVecStr(j.v["expertise"])
EntityVal(j) ==
    [id |-> OptUuidVal(j, "id"),
     form |-> j.v["form"].v,
     occupation |-> j.v["occupation"].v,
     gender |-> OptStrVal(j, "gender"),
     age |-> OptStrVal(j, "age"),
     background |-> OptStrVal(j, "background"),
     expertise |-> IF Present(j, "expertise")
                   THEN Some(VecStrVal(j.v["expertise"]))
                   ELSE None]
EncEntity(x) ==
    JObj(SkipIfNone("id", EncOptUuid(x.id))
         @@ [form |-> JStr(x.form), occupation |-> JStr(x.occupation)]
         @@ SkipIfNone("gender", EncOptStr(x.gender))
         @@ SkipIfNone("age", EncOptStr(x.age))
         @@ SkipIfNone("background", EncOptStr(x.background))
         @@ SkipIfNone("expertise",
                       IF x.expertise = None THEN None
                       ELSE Some(EncVecStr(x.expertise[1]))))

(***************************************************************************)
(* Soul (soul.rs).                                                         *)
(***************************************************************************)
SoulOk(j) ==
    /\ IsObj(j)
    /\ StrOk(j, "version")
    /\ OptUuidOk(j, "id")
    /\ HasKey(j, "entity")
    /\ EntityOk(j.v["entity"])
    /\ HasKey(j, "personality")
    /\ PersonalityOk(j.v["personality"])
SoulVal(j) ==
    [version |-> j.v["version"].v,
     id |-> OptUuidVal(j, "id"),
     entity |-> EntityVal(j.v["entity"]),
     personality |-> PersonalityVal(j.v["personality"])]
EncSoul(x) ==
    JObj([version |-> JStr(x.version)]
         @@ SkipIfNone("id", EncOptUuid(x.id))
         @@ [entity |-> EncEntity(x.entity),
             personality |-> EncPersonality(x.personality)])

(***************************************************************************)
(* FragmentType, Context and Fragment (memories/fragment.rs).  The id      *)
(* fields of Context and Fragment carry no skip_serializing_if attribute.  *)
(***************************************************************************)
FragmentType == {"Observation", "Reflection"}
FragmentTypeTag == [Observation |-> "observation", Reflection |-> "reflection"]
FragmentTypeOk(a) == a.t = "str" /\ \E e \in FragmentType : FragmentTypeTag[e] = a.v
FragmentTypeVal(a) == CHOOSE e \in FragmentType : FragmentTypeTag[e] = a.v
EncFragmentType(e) == JStr(FragmentTypeTag[e])

\* the four validate_* modules: the closed interval each one checks, in tenths
InUnit(x) == x # NaN /\ 0 <= x /\ x <= 10
InSigned(x) == x # NaN /\ -10 <= x /\ x <= 10
\* variant: importance is read without the range check
validate_importance_Unchecked(j, k) == F32Ok(j, k)
validate_importance(j, k) == F32Ok(j, k) /\ InUnit(F32Val(j, k))
validate_emotional_valence(j, k) == F32Ok(j, k) /\ InSigned(F32Val(j, k))
validate_importance_score(j, k) == F32Ok(j, k) /\ InUnit(F32Val(j, k))
validate_valence(j, k) == F32Ok(j, k) /\ InSigned(F32Val(j, k))
\* variant: intensity is checked against the interval of valence
validate_intensity_Signed(j, k) == F32Ok(j, k) /\ InSigned(F32Val(j, k))
validate_intensity(j, k) == F32Ok(j, k) /\ InUnit(F32Val(j, k))

ContextOk(j) ==
    /\ IsObj(j)
    /\ OptUuidOk(j, "id")
    /\ StrOk(j, "topic")
    /\ StrOk(j, "user_state")
ContextVal(j) ==
    [id |-> OptUuidVal(j, "id"),
     topic |-> j.v["topic"].v,
     user_state |-> j.v["user_state"].v]
EncContext(x) ==
    JObj(NullIfNone("id", EncOptUuid(x.id))
         @@ [topic |-> JStr(x.topic), user_state |-> JStr(x.user_state)])

FragmentOk(j) ==
    /\ IsObj(j)
    /\ OptUuidOk(j, "id")
    /\ HasKey(j, "type")
    /\ FragmentTypeOk(j.v["type"])
    /\ StrOk(j, "content")
    /\ I64Ok(j, "timestamp")
    /\ validate_importance(j, "importance")
    /\ validate_emotional_valence(j, "emotional_valence")
    /\ HasKey(j, "context")
    /\ ContextOk(j.v["context"])
FragmentVal(j) ==
    [id |-> OptUuidVal(j, "id"),
     fragment_type |-> FragmentTypeVal(j.v["type"]),
     content |-> j.v["content"].v,
     timestamp |-> j.v["timestamp"].v,
     importance |-> F32Val(j, "importance"),
     emotional_valence |-> F32Val(j, "emotional_valence"),
     context |-> ContextVal(j.v["context"])]
EncFragment(x) ==
    JObj(NullIfNone("id", EncOptUuid(x.id))
         @@ [type |-> EncFragmentType(x.fragment_type),
             content |-> JStr(x.content),
             timestamp |-> JInt(x.timestamp),
             importance |-> EncF32(x.importance),
             emotional_valence |-> EncF32(x.emotional_valence),
             context |-> EncContext(x.context)])

(***************************************************************************)
(* EmotionalSignature, MemoryMetadata and Memory (memories.rs).            *)
(***************************************************************************)
EmotionalSignatureOk(j) ==
    /\ IsObj(j)
    /\ OptUuidOk(j, "id")
    /\ validate_valence(j, "valence")
    /\ validate_intensity(j, "intensity")
EmotionalSignatureVal(j) ==
    [id |-> OptUuidVal(j, "id"),
     valence |-> F32Val(j, "valence"),
     intensity |-> F32Val(j, "intensity")]
EncEmotionalSignature(x) ==
    JObj(SkipIfNone("id", EncOptUuid(x.id))
         @@ [valence |-> EncF32(x.valence), intensity |-> EncF32(x.intensity)])

MemoryMetadataOk(j) ==
    /\ IsObj(j)
    /\ OptUuidOk(j, "id")
    /\ VecStrOk(j, "topic_tags")
    /\ VecStrOk(j, "personality_influence")
    /\ StrOk(j, "memory_type")
MemoryMetadataVal(j) ==
    [id |-> OptUuidVal(j, "id"),
     topic_tags |-> VecStrVal(j.v["topic_tags"]),
     personality_influence |-> VecStrVal(j.v["personality_influence"]),
     memory_type |-> j.v["memory_type"].v]
EncMemoryMetadata(x) ==
    JObj(SkipIfNone("id", EncOptUuid(x.id))
         @@ [topic_tags |-> EncVecStr(x.topic_tags),
             personality_influence |-> EncVecStr(x.personality_influence),
             memory_type |-> JStr(x.memory_type)])

\* mod uuid_vec_format: a list of strings, each parsed as a Uuid
uuid_vec_format_ok(j, k) ==
    /\ HasKey(j, k)
    /\ j.v[k].t = "arr"
    /\ \A i \in 1..Len(j.v[k].v) : IsUuid(j.v[k].v[i])
uuid_vec_format_val(j, k) == [i \in 1..Len(j.v[k].v) |-> ParseUuid(j.v[k].v[i])]
uuid_vec_format_enc(s) == JArr([i \in 1..Len(s) |-> JStr(s[i])])

MemoryOk(j) ==
    /\ IsObj(j)
    /\ OptUuidOk(j, "id")
    /\ StrOk(j, "memory")
    /\ HasKey(j, "fragments")
    /\ (j.v["fragments"].t = "arr" /\ \A i \in 1..Len(j.v["fragments"].v) : FragmentOk(j.v["fragments"].v[i]))
    /\ uuid_vec_format_ok(j, "connections")
    /\ HasKey(j, "emotional_signature")
    /\ EmotionalSignatureOk(j.v["emotional_signature"])
    /\ validate_importance_score(j, "importance_score")
    /\ I64Ok(j, "creation_date")
    /\ I64Ok(j, "last_accessed")
    /\ HasKey(j, "metadata")
    /\ MemoryMetadataOk(j.v["metadata"])
MemoryVal(j) ==
    [id |-> OptUuidVal(j, "id"),
     memory |-> j.v["memory"].v,
     fragments |-> [i \in 1..Len(j.v["fragments"].v) |->
                       FragmentVal(j.v["fragments"].v[i])],
     connections |-> uuid_vec_format_val(j, "connections"),
     emotional_signature |-> EmotionalSignatureVal(j.v["emotional_signature"]),
     importance_score |-> F32Val(j, "importance_score"),
     creation_date |-> j.v["creation_date"].v,
     last_accessed |-> j.v["last_accessed"].v,
     metadata |-> MemoryMetadataVal(j.v["metadata"])]
EncMemory(x) ==
    JObj(SkipIfNone("id", EncOptUuid(x.id))
         @@ [memory |-> JStr(x.memory),
             fragments |-> JArr([i \in 1..Len(x.fragments) |->
                                    EncFragment(x.fragments[i])]),
             connections |-> uuid_vec_format_enc(x.connections),
             emotional_signature |-> EncEmotionalSignature(x.emotional_signature),
             importance_score |-> EncF32(x.importance_score),
             creation_date |-> JInt(x.creation_date),
             last_accessed |-> JInt(x.last_accessed),
             metadata |-> EncMemoryMetadata(x.metadata)])

(***************************************************************************)
(* The clock.  chrono::Utc::now() is read as a day number (date_naive) or  *)
(* as a millisecond count (timestamp_millis); NaiveDate::to_string writes  *)
(* the day as YYYY-MM-DD.                                                  *)
(***************************************************************************)
MaxDay == 2
DateText == <<"2025-01-10", "2025-01-11", "2025-01-12", "2025-01-13", "2025-01-14">>
DateString(d) == DateText[d + 1]
\* the count for the first day and for one day, in units of 100 seconds
timestamp_millis(d) == 17364672 + d * 864

(***************************************************************************)
(* Default constructions.                                                  *)
(***************************************************************************)
EntityDefault ==
    [id |-> None, form |-> "ai", occupation |-> "assistant", gender |-> None,
     age |-> None, background |-> None, expertise |-> None]

\* the two metadata stamps come from two separate reads of the clock
PersonalityDefault(d1, d2) ==
    [id |-> None,
     name |-> "AI Assistant",
     traits |-> << [id |-> None, trait |-> "helpful", strength |-> 9,
                    expression_rules |-> Some(<<"always seeks to assist">>)],
                   [id |-> None, trait |-> "professional", strength |-> 8,
                    expression_rules |->
                        Some(<<"maintains appropriate boundaries">>)] >>,
     values |-> None,
     voice |-> None,
     relationship |-> None,
     metadata |-> Some([creation_date |-> DateString(d1),
                        last_modified |-> DateString(d2)])]

DEFAULT_VERSION == "1.0"
SoulDefault(d1, d2) ==
    [id |-> None, version |-> DEFAULT_VERSION, entity |-> EntityDefault,
     personality |-> PersonalityDefault(d1, d2)]

ValueDefault ==
    [id |-> None, name |-> "", importance |-> 5, expression |-> "",
     conflicts |-> None]
ContextDefault == [id |-> None, topic |-> "general", user_state |-> "neutral"]
FragmentDefault(now) ==
    [id |-> None, fragment_type |-> "Observation", content |-> "",
     timestamp |-> now, importance |-> 0, emotional_valence |-> 0,
     context |-> ContextDefault]
EmotionalSignatureDefault == [id |-> None, valence |-> 0, intensity |-> 0]
MemoryMetadataDefault ==
    [id |-> None, topic_tags |-> <<>>, personality_influence |-> <<>>,
     memory_type |-> "default"]
MemoryDefault(now) ==
    [id |-> None, memory |-> "", fragments |-> <<>>, connections |-> <<>>,
     emotional_signature |-> EmotionalSignatureDefault, importance_score |-> 0,
     creation_date |-> now, last_accessed |-> now,
     metadata |-> MemoryMetadataDefault]

(***************************************************************************)
(* State.                                                                  *)
(*   clients   the Soulgraph values built so far: [base_url, api_key]      *)
(*   live      live[c] while the caller still owns clients[c]; every       *)
(*             Soulgraph method takes `self` by value, so passing a client *)
(*             to an operation moves it                                    *)
(*   calls     calls[c] is the resource operation that consumed client c,  *)
(*             None while there is none                                    *)
(*   sends     sends[c] counts the requests handed to the transport with   *)
(*             client c                                                    *)
(***************************************************************************)
VARIABLES clients, live, calls, sends

clientVars == <<clients, live, calls, sends>>

(***************************************************************************)
(*   now                 the clock, in days                                *)
(*   entityBuilder       the EntityBuilder under construction, None once   *)
(*                       build() has consumed it                           *)
(*   entitySetters       the setters called on it since EntityBuilder::new *)
(*   entityBuilt         what build() returned                             *)
(*   personalityBuilder  the PersonalityBuilder under construction         *)
(*   personalityCalls    what the caller passed to it: whether name() was  *)
(*                       called, the traits added in order, the metadata   *)
(*                       entries supplied                                  *)
(*   personalityBuilt    what build() returned                             *)
(***************************************************************************)
VARIABLES now, entityBuilder, entitySetters, entityBuilt,
          personalityBuilder, personalityCalls, personalityBuilt

entityVars == <<entityBuilder, entitySetters, entityBuilt>>
personalityVars == <<now, personalityBuilder, personalityCalls, personalityBuilt>>

(***************************************************************************)
(*   valueBuilder   the ValueBuilder under construction, None once build() *)
(*                  has consumed it                                        *)
(*   valueCalls     what the caller did with it: the setters called and    *)
(*                  the number last passed to importance()                 *)
(*   valueBuilt     what build() returned                                  *)
(*   voiceBuilder, voiceSetters, voiceBuilt   the same for VoiceBuilder    *)
(*   codec          the serde steps taken on the record at hand, oldest    *)
(*                  first: [op, kind, out], where out is the JSON value    *)
(*                  written or received, or the Result of a decode         *)
(***************************************************************************)
VARIABLES valueBuilder, valueCalls, valueBuilt,
          voiceBuilder, voiceSetters, voiceBuilt,
          codec

valueVars == <<valueBuilder, valueCalls, valueBuilt>>
voiceVars == <<voiceBuilder, voiceSetters, voiceBuilt>>

(***************************************************************************)
(*   soulBuilder, soulCalls, soulBuilt   the SoulBuilder under             *)
(*                  construction, what the caller passed to it (the last   *)
(*                  value per setter) and what build() returned            *)
(*   made           the default constructions evaluated so far, oldest     *)
(*                  first: [kind, value]                                   *)
(*   memoryBuilder, memoryCalls, memoryBuilt   the same for MemoryBuilder; *)
(*                  memoryCalls also keeps how and when the builder was    *)
(*                  created and when build() was called                    *)
(*   fragmentBuilder, fragmentCalls, fragmentBuilt   for FragmentBuilder   *)
(*   traitBuilder, traitCalls, traitBuilt   for TraitBuilder; traitCalls   *)
(*                  keeps the last strength and the rules added in order   *)
(*   soulgraphBuilder, soulgraphCalls, soulgraphBuilt   for                *)
(*                  SoulgraphBuilder; soulgraphBuilt is the outcome of     *)
(*                  build(): a client or a panic                           *)
(***************************************************************************)
VARIABLES soulBuilder, soulCalls, soulBuilt, made,
          memoryBuilder, memoryCalls, memoryBuilt,
          fragmentBuilder, fragmentCalls, fragmentBuilt,
          traitBuilder, traitCalls, traitBuilt,
          soulgraphBuilder, soulgraphCalls, soulgraphBuilt

soulVars == <<soulBuilder, soulCalls, soulBuilt>>
memoryVars == <<memoryBuilder, memoryCalls, memoryBuilt>>
fragmentVars == <<fragmentBuilder, fragmentCalls, fragmentBuilt>>
traitVars == <<traitBuilder, traitCalls, traitBuilt>>
soulgraphVars == <<soulgraphBuilder, soulgraphCalls, soulgraphBuilt>>
lateVars == <<soulVars, made, memoryVars, fragmentVars, traitVars, soulgraphVars>>
partVars == <<valueVars, voiceVars, codec, lateVars>>
\* what the later builders leave alone, the clock apart
personalityState == <<personalityBuilder, personalityCalls, personalityBuilt>>
earlyVars == <<clientVars, entityVars, personalityState, valueVars, voiceVars, codec>>
vars == <<clientVars, entityVars, personalityVars, partVars>>

(***************************************************************************)
(* Soulgraph (lib.rs): the request each method hands to the transport.     *)
(***************************************************************************)
Soulgraph_new(api_key, base_url) == [base_url |-> base_url, api_key |-> api_key]

\* new() parses the key into a header value and unwraps the result: the
\* parse accepts visible bytes, space and tab only.  KeyBytes spells the keys.
KeyBytes ==
    ("test-key" :> <<116, 101, 115, 116, 45, 107, 101, 121>>) @@
    ("k\tv" :> <<107, 9, 118>>) @@
    ("k\nv" :> <<107, 10, 118>>)
is_valid(b) == (b >= 32 /\ b # 127) \/ b = 9
HeaderValueOk(api_key) ==
    \A i \in 1..Len(KeyBytes[api_key]) : is_valid(KeyBytes[api_key][i])
Panic(message) == [panic |-> TRUE, message |-> message]
Returned(x) == [panic |-> FALSE, value |-> x]
Soulgraph_new_outcome(api_key, base_url) ==
    IF HeaderValueOk(api_key) THEN Returned(Soulgraph_new(api_key, base_url))
    ELSE Panic("InvalidHeaderValue")

format_url(base_url, endpoint) == base_url \o endpoint

Soulgraph_get(self, endpoint) ==
    [method |-> "GET", url |-> format_url(self.base_url, endpoint),
     api_key |-> self.api_key, json |-> None]
Soulgraph_post(self, endpoint, json) ==
    [method |-> "POST", url |-> format_url(self.base_url, endpoint),
     api_key |-> self.api_key, json |-> Some(json)]
Soulgraph_put(self, endpoint, json) ==
    [method |-> "PUT", url |-> format_url(self.base_url, endpoint),
     api_key |-> self.api_key, json |-> Some(json)]
Soulgraph_patch(self, endpoint, json) ==
    [method |-> "PATCH", url |-> format_url(self.base_url, endpoint),
     api_key |-> self.api_key, json |-> Some(json)]
Soulgraph_delete(self, endpoint) ==
    [method |-> "DELETE", url |-> format_url(self.base_url, endpoint),
     api_key |-> self.api_key, json |-> None]

(***************************************************************************)
(* The transport's answer is Ok([status, body]) or Err("transport").       *)
(* response.json::<T>() reads the body as a T.                             *)
(***************************************************************************)
StatusOK == 200

json_Soul(body) == IF SoulOk(body) THEN Ok(SoulVal(body)) ELSE Err("decode")
json_Personality(body) ==
    IF PersonalityOk(body) THEN Ok(PersonalityVal(body)) ELSE Err("decode")
json_Memory(body) == IF MemoryOk(body) THEN Ok(MemoryVal(body)) ELSE Err("decode")

(***************************************************************************)
(* impl Soul (soul.rs): get, create, delete.                               *)
(***************************************************************************)
Soul_get_request(id, soul) == Soulgraph_get(soul, "/personality/" \o id)
Soul_get_result(id, r) ==
    IF r.ok
    THEN IF r.val.status = StatusOK
         THEN IF json_Soul(r.val.body).ok
              THEN Ok(json_Soul(r.val.body).val)
              ELSE Err("CorruptSoul")
         ELSE Err("CorruptSoul")
    ELSE Err("CorruptSoul")

Soul_create_request(personality, soul) ==
    Soulgraph_post(soul, "/personality", EncSoul(personality))
Soul_create_result(personality, r) ==
    IF r.ok
    THEN IF r.val.status = StatusOK
         THEN IF json_Soul(r.val.body).ok
              THEN Ok(json_Soul(r.val.body).val)
              ELSE Err("CorruptSoul")
         ELSE Err("CorruptSoul")
    ELSE Err("CorruptSoul")

Soul_delete_request(id, soul) == Soulgraph_delete(soul, "/personality/" \o id)
Soul_delete_result(id, r) ==
    IF r.ok
    THEN IF r.val.status = StatusOK THEN Ok(Unit) ELSE Err("CorruptSoul")
    ELSE Err("CorruptSoul")

(***************************************************************************)
(* impl Personality (personality.rs): get, create, update.                 *)
(***************************************************************************)
\* variant: the HTTP status leaks into the failure value
Personality_get_result_Distinguishing(id, r) ==
    IF r.ok
    THEN IF r.val.status = StatusOK
         THEN IF json_Personality(r.val.body).ok
              THEN Ok(json_Personality(r.val.body).val)
              ELSE Err("CorruptPersonality")
         ELSE Err("NotFound")
    ELSE Err("CorruptPersonality")
\* variant: the operation fails while another operation is in flight too
Personality_get_result_Shared(id, r) ==
    IF Cardinality({d \in 1..Len(calls) :
                       calls[d] # None /\ calls[d][1].pc = "await"}) > 1
    THEN Err("CorruptPersonality")
    ELSE IF r.ok /\ r.val.status = StatusOK /\ json_Personality(r.val.body).ok
         THEN Ok(json_Personality(r.val.body).val)
         ELSE Err("CorruptPersonality")
Personality_get_request(id, soul) == Soulgraph_get(soul, "/personality/" \o id)
Personality_get_result(id, r) ==
    IF r.ok
    THEN IF r.val.status = StatusOK
         THEN IF json_Personality(r.val.body).ok
              THEN Ok(json_Personality(r.val.body).val)
              ELSE Err("CorruptPersonality")
         ELSE Err("CorruptPersonality")
    ELSE Err("CorruptPersonality")

\* variant: the instance that was sent is handed back
Personality_create_result_Echo(personality, r) ==
    IF r.ok
    THEN IF r.val.status = StatusOK
         THEN IF json_Personality(r.val.body).ok
              THEN Ok(personality)
              ELSE Err("CorruptPersonality")
         ELSE Err("CorruptPersonality")
    ELSE Err("CorruptPersonality")
Personality_create_request(personality, soul) ==
    Soulgraph_post(soul, "/personality", EncPersonality(personality))
Personality_create_result(personality, r) ==
    IF r.ok
    THEN IF r.val.status = StatusOK
         THEN IF json_Personality(r.val.body).ok
              THEN Ok(json_Personality(r.val.body).val)
              ELSE Err("CorruptPersonality")
         ELSE Err("CorruptPersonality")
    ELSE Err("CorruptPersonality")

\* an update sent with PUT
Personality_update_request_Put(id, personality, soul) ==
    Soulgraph_put(soul, "/personality/" \o id, EncPersonality(personality))
Personality_update_request(id, personality, soul) ==
    Soulgraph_patch(soul, "/personality/" \o id, EncPersonality(personality))
Personality_update_result(id, personality, r) ==
    IF r.ok
    THEN IF r.val.status = StatusOK
         THEN IF json_Personality(r.val.body).ok
              THEN Ok(json_Personality(r.val.body).val)
              ELSE Err("CorruptPersonality")
         ELSE Err("CorruptPersonality")
    ELSE Err("CorruptPersonality")

(***************************************************************************)
(* impl Memory (memories.rs): get, create, delete.                         *)
(***************************************************************************)
\* variant: Memory has a path of its own
Memory_get_request_OwnPath(id, soul) == Soulgraph_get(soul, "/memory/" \o id)
Memory_get_request(id, soul) == Soulgraph_get(soul, "/personality/" \o id)
Memory_get_result(id, r) ==
    IF r.ok
    THEN IF r.val.status = StatusOK
         THEN IF json_Memory(r.val.body).ok
              THEN Ok(json_Memory(r.val.body).val)
              ELSE Err("CorruptMemory")
         ELSE Err("CorruptMemory")
    ELSE Err("CorruptMemory")

Memory_create_request(personality, soul) ==
    Soulgraph_post(soul, "/personality", EncMemory(personality))
Memory_create_result(personality, r) ==
    IF r.ok
    THEN IF r.val.status = StatusOK
         THEN IF json_Memory(r.val.body).ok
              THEN Ok(json_Memory(r.val.body).val)
              ELSE Err("CorruptMemory")
         ELSE Err("CorruptMemory")
    ELSE Err("CorruptMemory")

Memory_delete_request(id, soul) == Soulgraph_delete(soul, "/personality/" \o id)
Memory_delete_result(id, r) ==
    IF r.ok
    THEN IF r.val.status = StatusOK THEN Ok(Unit) ELSE Err("CorruptMemory")
    ELSE Err("CorruptMemory")

(***************************************************************************)
(* A resource operation runs in two steps: up to its await on the          *)
(* transport (the request is built and sent, the client is consumed), and  *)
(* from the transport's answer to its return value.                        *)
(***************************************************************************)
Await(c, kind, op, id, sent, request) ==
    /\ c \in 1..Len(clients)
    /\ live[c]
    /\ live' = [live EXCEPT ![c] = FALSE]
    /\ calls' = [calls EXCEPT ![c] =
                    Some([kind |-> kind, op |-> op, id |-> id, sent |-> sent,
                          request |-> request, pc |-> "await",
                          response |-> None, result |-> None])]
    /\ sends' = [sends EXCEPT ![c] = @ + 1]
    /\ UNCHANGED <<clients, entityVars, personalityVars, partVars>>

Soul_get(c, id) ==
    /\ c \in 1..Len(clients)
    /\ Await(c, "Soul", "get", Some(id), None, Soul_get_request(id, clients[c]))
Soul_create(c, personality) ==
    /\ c \in 1..Len(clients)
    /\ Await(c, "Soul", "create", None, Some(personality),
             Soul_create_request(personality, clients[c]))
Soul_delete(c, id) ==
    /\ c \in 1..Len(clients)
    /\ Await(c, "Soul", "delete", Some(id), None,
             Soul_delete_request(id, clients[c]))

Personality_get(c, id) ==
    /\ c \in 1..Len(clients)
    /\ Await(c, "Personality", "get", Some(id), None,
             Personality_get_request(id, clients[c]))
Personality_create(c, personality) ==
    /\ c \in 1..Len(clients)
    /\ Await(c, "Personality", "create", None, Some(personality),
             Personality_create_request(personality, clients[c]))
Personality_update(c, id, personality) ==
    /\ c \in 1..Len(clients)
    /\ Await(c, "Personality", "update", Some(id), Some(personality),
             Personality_update_request(id, personality, clients[c]))

Memory_get(c, id) ==
    /\ c \in 1..Len(clients)
    /\ Await(c, "Memory", "get", Some(id), None,
             Memory_get_request(id, clients[c]))
Memory_create(c, personality) ==
    /\ c \in 1..Len(clients)
    /\ Await(c, "Memory", "create", None, Some(personality),
             Memory_create_request(personality, clients[c]))
Memory_delete(c, id) ==
    /\ c \in 1..Len(clients)
    /\ Await(c, "Memory", "delete", Some(id), None,
             Memory_delete_request(id, clients[c]))

\* the part of the operation after the await
Resume(call, r) ==
    CASE call.kind = "Soul" /\ call.op = "get" ->
            Soul_get_result(call.id[1], r)
      [] call.kind = "Soul" /\ call.op = "create" ->
            Soul_create_result(call.sent[1], r)
      [] call.kind = "Soul" /\ call.op = "delete" ->
            Soul_delete_result(call.id[1], r)
      [] call.kind = "Personality" /\ call.op = "get" ->
            Personality_get_result(call.id[1], r)
      [] call.kind = "Personality" /\ call.op = "create" ->
            Personality_create_result(call.sent[1], r)
      [] call.kind = "Personality" /\ call.op = "update" ->
            Personality_update_result(call.id[1], call.sent[1], r)
      [] call.kind = "Memory" /\ call.op = "get" ->
            Memory_get_result(call.id[1], r)
      [] call.kind = "Memory" /\ call.op = "create" ->
            Memory_create_result(call.sent[1], r)
      [] call.kind = "Memory" /\ call.op = "delete" ->
            Memory_delete_result(call.id[1], r)

TransportRespond(c, r) ==
    /\ c \in 1..Len(clients)
    /\ calls[c] # None
    /\ calls[c][1].pc = "await"
    /\ calls' = [calls EXCEPT ![c] =
                    Some([calls[c][1] EXCEPT !.pc = "done",
                                             !.response = Some(r),
                                             !.result = Some(Resume(calls[c][1], r))])]
    /\ UNCHANGED <<clients, live, sends, entityVars, personalityVars, partVars>>

\* Soulgraph::new hands the caller a fresh client
SoulgraphNew(api_key, base_url) ==
    /\ HeaderValueOk(api_key)
    /\ clients' = Append(clients, Soulgraph_new(api_key, base_url))
    /\ live' = Append(live, TRUE)
    /\ calls' = Append(calls, None)
    /\ sends' = Append(sends, 0)
    /\ UNCHANGED <<entityVars, personalityVars, partVars>>

(***************************************************************************)
(* EntityBuilder (entity.rs).                                              *)
(***************************************************************************)
EntityBuilder_new ==
    [form |-> None, occupation |-> None, gender |-> None, age |-> None,
     background |-> None, expertise |-> None]
EntityBuilder_form(self, form) == [self EXCEPT !.form = Some(form)]
EntityBuilder_occupation(self, occupation) ==
    [self EXCEPT !.occupation = Some(occupation)]
EntityBuilder_gender(self, gender) == [self EXCEPT !.gender = Some(gender)]
EntityBuilder_age(self, age) == [self EXCEPT !.age = Some(age)]
EntityBuilder_background(self, background) ==
    [self EXCEPT !.background = Some(background)]
EntityBuilder_expertise(self, expertise) ==
    [self EXCEPT !.expertise = Some(expertise)]

\* variant: build() mints an identifier
EntityBuilder_build_FreshId(self) ==
    IF self.form = None THEN Err("MissingForm")
    ELSE IF self.occupation = None THEN Err("MissingOccupation")
    ELSE Ok([id |-> Some(UuidA),
             form |-> self.form[1],
             occupation |-> self.occupation[1],
             gender |-> self.gender,
             age |-> self.age,
             background |-> self.background,
             expertise |-> self.expertise])
\* variant: occupation is checked before form
EntityBuilder_build_OccupationFirst(self) ==
    IF self.occupation = None THEN Err("MissingOccupation")
    ELSE IF self.form = None THEN Err("MissingForm")
    ELSE Ok([id |-> None,
             form |-> self.form[1],
             occupation |-> self.occupation[1],
             gender |-> self.gender,
             age |-> self.age,
             background |-> self.background,
             expertise |-> self.expertise])
EntityBuilder_build(self) ==
    IF self.form = None THEN Err("MissingForm")
    ELSE IF self.occupation = None THEN Err("MissingOccupation")
    ELSE Ok([id |-> None,
             form |-> self.form[1],
             occupation |-> self.occupation[1],
             gender |-> self.gender,
             age |-> self.age,
             background |-> self.background,
             expertise |-> self.expertise])

EntityNew ==
    /\ entityBuilder' = Some(EntityBuilder_new)
    /\ entitySetters' = {}
    /\ entityBuilt' = None
    /\ UNCHANGED <<clientVars, personalityVars, partVars>>

\* a chained setter: the builder is replaced by the one the setter returns
EntitySet(name, next) ==
    /\ entityBuilder # None
    /\ entityBuilder' = Some(next)
    /\ entitySetters' = entitySetters \cup {name}
    /\ UNCHANGED <<entityBuilt, clientVars, personalityVars, partVars>>

EntityForm(form) ==
    /\ entityBuilder # None
    /\ EntitySet("form", EntityBuilder_form(entityBuilder[1], form))
EntityOccupation(occupation) ==
    /\ entityBuilder # None
    /\ EntitySet("occupation", EntityBuilder_occupation(entityBuilder[1], occupation))
EntityGender(gender) ==
    /\ entityBuilder # None
    /\ EntitySet("gender", EntityBuilder_gender(entityBuilder[1], gender))
EntityAge(age) ==
    /\ entityBuilder # None
    /\ EntitySet("age", EntityBuilder_age(entityBuilder[1], age))
EntityBackground(background) ==
    /\ entityBuilder # None
    /\ EntitySet("background", EntityBuilder_background(entityBuilder[1], background))
EntityExpertise(expertise) ==
    /\ entityBuilder # None
    /\ EntitySet("expertise", EntityBuilder_expertise(entityBuilder[1], expertise))

EntityBuild ==
    /\ entityBuilder # None
    /\ entityBuilt' = Some(EntityBuilder_build(entityBuilder[1]))
    /\ entityBuilder' = None
    /\ UNCHANGED <<entitySetters, clientVars, personalityVars, partVars>>

(***************************************************************************)
(* TraitBuilder (personality/traits.rs).                                   *)
(***************************************************************************)
TraitBuilder_new(name) ==
    [trait_name |-> name, strength |-> 5, expression_rules |-> None]
\* a strength setter that rebuilds the builder and drops the rules added so far
TraitBuilder_strength_Fresh(self, strength) ==
    [self EXCEPT !.strength = strength, !.expression_rules = None]
TraitBuilder_strength(self, strength) == [self EXCEPT !.strength = strength]
TraitBuilder_add_expression_rule(self, rule) ==
    [self EXCEPT !.expression_rules =
        Some((IF self.expression_rules = None THEN <<>>
              ELSE self.expression_rules[1]) \o <<rule>>)]
TraitBuilder_build(self) ==
    [id |-> None, trait |-> self.trait_name, strength |-> self.strength,
     expression_rules |-> self.expression_rules]

(***************************************************************************)
(* Default Voice, Boundary and Relationship.                               *)
(***************************************************************************)
VoiceDefault ==
    [id |-> None,
     style |-> "sternly encouraging",
     tone |-> "firm and direct",
     qualities |-> <<"commanding", "confident", "supportive in a tough manner">>,
     patterns |-> <<"references historical IDF successes",
                    "uses military idioms",
                    "mixes motivational orders with reminders of responsibility">>]
BoundaryDefault ==
    [id |-> None,
     type |-> "core values",
     description |-> "becomes more formal and distant if questioned on core values",
     enforcement |-> "Flexible"]
RelationshipDefault ==
    [id |-> None,
     style |-> "mentor-like guidance through respect and shared purpose",
     boundaries |-> <<BoundaryDefault>>]

(***************************************************************************)
(* PersonalityBuilder (personality.rs).                                    *)
(***************************************************************************)
PersonalityBuilder_new ==
    [id |-> None, name |-> None, traits |-> <<>>, values |-> None,
     voice |-> None, relationship |-> None, metadata |-> None]
PersonalityBuilder_id(self, id) == [self EXCEPT !.id = Some(id)]
PersonalityBuilder_name(self, name) == [self EXCEPT !.name = Some(name)]
PersonalityBuilder_add_trait(self, trait) ==
    [self EXCEPT !.traits = Append(self.traits, trait)]
PersonalityBuilder_add_value(self, value) ==
    [self EXCEPT !.values =
        Some(Append(IF self.values = None THEN <<>> ELSE self.values[1], value))]
PersonalityBuilder_voice(self, voice) == [self EXCEPT !.voice = Some(voice)]
PersonalityBuilder_relationship(self, relationship) ==
    [self EXCEPT !.relationship = Some(relationship)]
PersonalityBuilder_set_metadata(self, key, value) ==
    [self EXCEPT !.metadata =
        Some((key :> value) @@ (IF self.metadata = None THEN EmptyMap
                                ELSE self.metadata[1]))]

\* variant: the stamps are added only when the caller supplied no metadata
PersonalityBuilder_build_metadata_Unstamped(self, d1, d2) ==
    IF self.metadata = None
    THEN [creation_date |-> DateString(d1), last_modified |-> DateString(d2)]
    ELSE self.metadata[1]
\* the metadata of the built Personality; d1 and d2 are the days the two
\* reads of the clock return
PersonalityBuilder_build_metadata(self, d1, d2) ==
    LET supplied == IF self.metadata = None THEN EmptyMap ELSE self.metadata[1]
        created == IF "creation_date" \in DOMAIN supplied
                   THEN supplied
                   ELSE ("creation_date" :> DateString(d1)) @@ supplied
    IN  ("last_modified" :> DateString(d2)) @@ created

\* variant: the traits are checked before the name
PersonalityBuilder_build_TraitsFirst(self, d1, d2) ==
    IF self.traits = <<>> THEN Err("NoTraits")
    ELSE IF self.name = None THEN Err("MissingName")
    ELSE Ok([id |-> self.id,
             name |-> self.name[1],
             traits |-> self.traits,
             values |-> self.values,
             voice |-> self.voice,
             relationship |-> self.relationship,
             metadata |-> Some(PersonalityBuilder_build_metadata(self, d1, d2))])
PersonalityBuilder_build(self, d1, d2) ==
    IF self.name = None THEN Err("MissingName")
    ELSE IF self.traits = <<>> THEN Err("NoTraits")
    ELSE Ok([id |-> self.id,
             name |-> self.name[1],
             traits |-> self.traits,
             values |-> self.values,
             voice |-> self.voice,
             relationship |-> self.relationship,
             metadata |-> Some(PersonalityBuilder_build_metadata(self, d1, d2))])

NoCalls == [name |-> FALSE, traits |-> <<>>, metadata |-> EmptyMap]

PersonalityNew ==
    /\ personalityBuilder' = Some(PersonalityBuilder_new)
    /\ personalityCalls' = NoCalls
    /\ personalityBuilt' = None
    /\ UNCHANGED <<now, clientVars, entityVars, partVars>>

PersonalitySet(next, log) ==
    /\ personalityBuilder # None
    /\ personalityBuilder' = Some(next)
    /\ personalityCalls' = log
    /\ UNCHANGED <<now, personalityBuilt, clientVars, entityVars, partVars>>

PersonalityId(id) ==
    /\ personalityBuilder # None
    /\ PersonalitySet(PersonalityBuilder_id(personalityBuilder[1], id),
                      personalityCalls)
PersonalityName(name) ==
    /\ personalityBuilder # None
    /\ PersonalitySet(PersonalityBuilder_name(personalityBuilder[1], name),
                      [personalityCalls EXCEPT !.name = TRUE])
PersonalityAddTrait(trait) ==
    /\ personalityBuilder # None
    /\ Len(personalityBuilder[1].traits) < MaxTraits
    /\ PersonalitySet(PersonalityBuilder_add_trait(personalityBuilder[1], trait),
                      [personalityCalls EXCEPT !.traits = Append(@, trait)])
PersonalityAddValue(value) ==
    /\ personalityBuilder # None
    /\ personalityBuilder[1].values = None
    /\ PersonalitySet(PersonalityBuilder_add_value(personalityBuilder[1], value),
                      personalityCalls)
PersonalityVoice(voice) ==
    /\ personalityBuilder # None
    /\ PersonalitySet(PersonalityBuilder_voice(personalityBuilder[1], voice),
                      personalityCalls)
PersonalityRelationship(relationship) ==
    /\ personalityBuilder # None
    /\ PersonalitySet(PersonalityBuilder_relationship(personalityBuilder[1],
                                                      relationship),
                      personalityCalls)
PersonalitySetMetadata(key, value) ==
    /\ personalityBuilder # None
    /\ PersonalitySet(PersonalityBuilder_set_metadata(personalityBuilder[1],
                                                      key, value),
                      [personalityCalls EXCEPT
                          !.metadata = (key :> value) @@ @])

\* build() reads the clock twice; midnight may pass between the two reads
PersonalityBuild(d2) ==
    /\ personalityBuilder # None
    /\ d2 \in {now, now + 1}
    /\ d2 <= MaxDay
    /\ personalityBuilt' =
          Some(PersonalityBuilder_build(personalityBuilder[1], now, d2))
    /\ personalityBuilder' = None
    /\ now' = d2
    /\ UNCHANGED <<personalityCalls, clientVars, entityVars, partVars>>

Tick ==
    /\ now < MaxDay
    /\ now' = now + 1
    /\ UNCHANGED <<personalityBuilder, personalityCalls, personalityBuilt,
                   clientVars, entityVars, partVars>>

(***************************************************************************)
(* ValueBuilder (personality/value.rs).                                    *)
(***************************************************************************)
ValueBuilder_new ==
    [name |-> None, importance |-> None, expression |-> None, conflicts |-> None]
ValueBuilder_name(self, name) == [self EXCEPT !.name = Some(name)]
ValueBuilder_importance(self, importance) ==
    LET clamped == f32_clamp(importance, 0, 10)
    IN  [self EXCEPT !.importance = Some(clamped)]
ValueBuilder_expression(self, expression) ==
    [self EXCEPT !.expression = Some(expression)]
ValueBuilder_conflicts(self, conflicts) ==
    [self EXCEPT !.conflicts = Some(conflicts)]
\* variant: a missing importance is replaced by the default 0.5
ValueBuilder_build_DefaultImportance(self) ==
    IF self.name = None THEN Err("name is required")
    ELSE IF self.expression = None THEN Err("expression is required")
    ELSE Ok([id |-> None,
             name |-> self.name[1],
             importance |-> IF self.importance = None THEN 5
                            ELSE self.importance[1],
             expression |-> self.expression[1],
             conflicts |-> self.conflicts])
ValueBuilder_build(self) ==
    IF self.name = None THEN Err("name is required")
    ELSE IF self.importance = None THEN Err("importance is required")
    ELSE IF self.expression = None THEN Err("expression is required")
    ELSE Ok([id |-> None,
             name |-> self.name[1],
             importance |-> self.importance[1],
             expression |-> self.expression[1],
             conflicts |-> self.conflicts])

NoValueCalls == [setters |-> {}, importance |-> None]

ValueNew ==
    /\ valueBuilder' = Some(ValueBuilder_new)
    /\ valueCalls' = NoValueCalls
    /\ valueBuilt' = None
    /\ UNCHANGED <<clientVars, entityVars, personalityVars, voiceVars, codec, lateVars>>

\* a chained setter: the builder is replaced by the one the setter returns
ValueSet(name, next) ==
    /\ valueBuilder # None
    /\ valueBuilder' = Some(next)
    /\ valueCalls' = [valueCalls EXCEPT !.setters = @ \cup {name}]
    /\ UNCHANGED <<valueBuilt, clientVars, entityVars, personalityVars,
                   voiceVars, codec, lateVars>>

ValueName(name) ==
    /\ valueBuilder # None
    /\ ValueSet("name", ValueBuilder_name(valueBuilder[1], name))
ValueImportance(importance) ==
    /\ valueBuilder # None
    /\ valueBuilder' = Some(ValueBuilder_importance(valueBuilder[1], importance))
    /\ valueCalls' = [setters |-> valueCalls.setters \cup {"importance"},
                      importance |-> Some(importance)]
    /\ UNCHANGED <<valueBuilt, clientVars, entityVars, personalityVars,
                   voiceVars, codec, lateVars>>
ValueExpression(expression) ==
    /\ valueBuilder # None
    /\ ValueSet("expression", ValueBuilder_expression(valueBuilder[1], expression))
ValueConflicts(conflicts) ==
    /\ valueBuilder # None
    /\ ValueSet("conflicts", ValueBuilder_conflicts(valueBuilder[1], conflicts))

ValueBuild ==
    /\ valueBuilder # None
    /\ valueBuilt' = Some(ValueBuilder_build(valueBuilder[1]))
    /\ valueBuilder' = None
    /\ UNCHANGED <<valueCalls, clientVars, entityVars, personalityVars,
                   voiceVars, codec, lateVars>>

(***************************************************************************)
(* VoiceBuilder (personality/voice.rs).                                    *)
(***************************************************************************)
VoiceBuilder_new ==
    [style |-> None, tone |-> None, qualities |-> None, patterns |-> None]
VoiceBuilder_style(self, style) == [self EXCEPT !.style = Some(style)]
VoiceBuilder_tone(self, tone) == [self EXCEPT !.tone = Some(tone)]
VoiceBuilder_qualities(self, qualities) ==
    [self EXCEPT !.qualities = Some(qualities)]
VoiceBuilder_patterns(self, patterns) ==
    [self EXCEPT !.patterns = Some(patterns)]
\* variant: missing lists are replaced by empty ones
VoiceBuilder_build_EmptyLists(self) ==
    IF self.style = None THEN Err("style is required")
    ELSE IF self.tone = None THEN Err("tone is required")
    ELSE Ok([id |-> None,
             style |-> self.style[1],
             tone |-> self.tone[1],
             qualities |-> IF self.qualities = None THEN <<>>
                           ELSE self.qualities[1],
             patterns |-> IF self.patterns = None THEN <<>>
                          ELSE self.patterns[1]])
VoiceBuilder_build(self) ==
    IF self.style = None THEN Err("style is required")
    ELSE IF self.tone = None THEN Err("tone is required")
    ELSE IF self.qualities = None THEN Err("qualities is required")
    ELSE IF self.patterns = None THEN Err("patterns is required")
    ELSE Ok([id |-> None,
             style |-> self.style[1],
             tone |-> self.tone[1],
             qualities |-> self.qualities[1],
             patterns |-> self.patterns[1]])

VoiceNew ==
    /\ voiceBuilder' = Some(VoiceBuilder_new)
    /\ voiceSetters' = {}
    /\ voiceBuilt' = None
    /\ UNCHANGED <<clientVars, entityVars, personalityVars, valueVars, codec, lateVars>>

VoiceSet(name, next) ==
    /\ voiceBuilder # None
    /\ voiceBuilder' = Some(next)
    /\ voiceSetters' = voiceSetters \cup {name}
    /\ UNCHANGED <<voiceBuilt, clientVars, entityVars, personalityVars,
                   valueVars, codec, lateVars>>

VoiceStyle(style) ==
    /\ voiceBuilder # None
    /\ VoiceSet("style", VoiceBuilder_style(voiceBuilder[1], style))
VoiceTone(tone) ==
    /\ voiceBuilder # None
    /\ VoiceSet("tone", VoiceBuilder_tone(voiceBuilder[1], tone))
VoiceQualities(qualities) ==
    /\ voiceBuilder # None
    /\ VoiceSet("qualities", VoiceBuilder_qualities(voiceBuilder[1], qualities))
VoicePatterns(patterns) ==
    /\ voiceBuilder # None
    /\ VoiceSet("patterns", VoiceBuilder_patterns(voiceBuilder[1], patterns))

VoiceBuild ==
    /\ voiceBuilder # None
    /\ voiceBuilt' = Some(VoiceBuilder_build(voiceBuilder[1]))
    /\ voiceBuilder' = None
    /\ UNCHANGED <<voiceSetters, clientVars, entityVars, personalityVars,
                   valueVars, codec, lateVars>>

(***************************************************************************)
(* SoulBuilder (soul.rs).  build() cannot fail: every field it leaves out  *)
(* has a default.  Personality::default() reads the clock twice, d1 and    *)
(* d2 are the two days read.                                               *)
(***************************************************************************)
SoulBuilder_new == [version |-> None, entity |-> None, personality |-> None]
SoulBuilder_version(self, version) == [self EXCEPT !.version = Some(version)]
SoulBuilder_entity(self, entity) == [self EXCEPT !.entity = Some(entity)]
SoulBuilder_personality(self, personality) ==
    [self EXCEPT !.personality = Some(personality)]
SoulBuilder_build(self, d1, d2) ==
    [id |-> None,
     version |-> IF self.version = None THEN DEFAULT_VERSION
                 ELSE self.version[1],
     entity |-> IF self.entity = None THEN EntityDefault ELSE self.entity[1],
     personality |-> IF self.personality = None THEN PersonalityDefault(d1, d2)
                     ELSE self.personality[1]]

NoSoulCalls == [version |-> None, entity |-> None, personality |-> None]

SoulNew ==
    /\ soulBuilder' = Some(SoulBuilder_new)
    /\ soulCalls' = NoSoulCalls
    /\ soulBuilt' = None
    /\ UNCHANGED <<now, made, earlyVars, memoryVars, fragmentVars, traitVars,
                   soulgraphVars>>

\* a chained setter: the builder is replaced by the one the setter returns
SoulSet(next, log) ==
    /\ soulBuilder # None
    /\ soulBuilder' = Some(next)
    /\ soulCalls' = log
    /\ UNCHANGED <<now, soulBuilt, made, earlyVars, memoryVars, fragmentVars,
                   traitVars, soulgraphVars>>

SoulVersion(version) ==
    /\ soulBuilder # None
    /\ SoulSet(SoulBuilder_version(soulBuilder[1], version),
               [soulCalls EXCEPT !.version = Some(version)])
SoulEntity(entity) ==
    /\ soulBuilder # None
    /\ SoulSet(SoulBuilder_entity(soulBuilder[1], entity),
               [soulCalls EXCEPT !.entity = Some(entity)])
SoulPersonality(personality) ==
    /\ soulBuilder # None
    /\ SoulSet(SoulBuilder_personality(soulBuilder[1], personality),
               [soulCalls EXCEPT !.personality = Some(personality)])

\* build() reads the clock only when it has to construct the personality
SoulBuild(d2) ==
    /\ soulBuilder # None
    /\ d2 \in {now, now + 1}
    /\ d2 <= MaxDay
    /\ soulBuilder[1].personality # None => d2 = now
    /\ soulBuilt' = Some(SoulBuilder_build(soulBuilder[1], now, d2))
    /\ soulBuilder' = None
    /\ now' = d2
    /\ UNCHANGED <<soulCalls, made, earlyVars, memoryVars, fragmentVars,
                   traitVars, soulgraphVars>>

(***************************************************************************)
(* FragmentBuilder (memories/fragment.rs).  Fragment::builder() and        *)
(* FragmentBuilder::new start from the derived Default; t is the clock's   *)
(* reading inside build().                                                 *)
(***************************************************************************)
FragmentBuilderDefault ==
    [uuid |-> None, fragment_type |-> "Observation", content |-> "",
     timestamp |-> None, importance |-> 0, emotional_valence |-> 0,
     context |-> None]
FragmentBuilder_new(fragment_type, content) ==
    [FragmentBuilderDefault EXCEPT !.fragment_type = fragment_type,
                                   !.content = content]
FragmentBuilder_fragment_type(self, fragment_type) ==
    [self EXCEPT !.fragment_type = fragment_type]
FragmentBuilder_content(self, content) == [self EXCEPT !.content = content]
FragmentBuilder_timestamp(self, timestamp) ==
    [self EXCEPT !.timestamp = Some(timestamp)]
FragmentBuilder_importance(self, importance) ==
    [self EXCEPT !.importance = importance]
FragmentBuilder_emotional_valence(self, valence) ==
    [self EXCEPT !.emotional_valence = valence]
FragmentBuilder_context(self, context) == [self EXCEPT !.context = Some(context)]
FragmentBuilder_build(self, t) ==
    [id |-> None,
     fragment_type |-> self.fragment_type,
     content |-> self.content,
     timestamp |-> IF self.timestamp = None THEN t ELSE self.timestamp[1],
     importance |-> self.importance,
     emotional_valence |-> self.emotional_valence,
     context |-> IF self.context = None
                 THEN [id |-> None, topic |-> "general", user_state |-> "neutral"]
                 ELSE self.context[1]]

\* created: the day the builder was made; timestamp: the value passed to
\* timestamp(); built: the day build() ran
NoFragmentCalls == [created |-> None, timestamp |-> None, built |-> None]

FragmentNew(fragment_type, content) ==
    /\ fragmentBuilder' = Some(FragmentBuilder_new(fragment_type, content))
    /\ fragmentCalls' = [NoFragmentCalls EXCEPT !.created = Some(now)]
    /\ fragmentBuilt' = None
    /\ UNCHANGED <<now, soulVars, made, earlyVars, memoryVars, traitVars,
                   soulgraphVars>>
\* Fragment::builder()
FragmentFromDefault ==
    /\ fragmentBuilder' = Some(FragmentBuilderDefault)
    /\ fragmentCalls' = [NoFragmentCalls EXCEPT !.created = Some(now)]
    /\ fragmentBuilt' = None
    /\ UNCHANGED <<now, soulVars, made, earlyVars, memoryVars, traitVars,
                   soulgraphVars>>
FragmentSet(next, log) ==
    /\ fragmentBuilder # None
    /\ fragmentBuilder' = Some(next)
    /\ fragmentCalls' = log
    /\ UNCHANGED <<now, fragmentBuilt, soulVars, made, earlyVars, memoryVars,
                   traitVars, soulgraphVars>>
FragmentSetType(fragment_type) ==
    /\ fragmentBuilder # None
    /\ FragmentSet(FragmentBuilder_fragment_type(fragmentBuilder[1], fragment_type),
                   fragmentCalls)
FragmentContent(content) ==
    /\ fragmentBuilder # None
    /\ FragmentSet(FragmentBuilder_content(fragmentBuilder[1], content),
                   fragmentCalls)
FragmentTimestamp(timestamp) ==
    /\ fragmentBuilder # None
    /\ FragmentSet(FragmentBuilder_timestamp(fragmentBuilder[1], timestamp),
                   [fragmentCalls EXCEPT !.timestamp = Some(timestamp)])
FragmentImportance(importance) ==
    /\ fragmentBuilder # None
    /\ FragmentSet(FragmentBuilder_importance(fragmentBuilder[1], importance),
                   fragmentCalls)
FragmentEmotionalValence(valence) ==
    /\ fragmentBuilder # None
    /\ FragmentSet(FragmentBuilder_emotional_valence(fragmentBuilder[1], valence),
                   fragmentCalls)
FragmentContext(context) ==
    /\ fragmentBuilder # None
    /\ FragmentSet(FragmentBuilder_context(fragmentBuilder[1], context),
                   fragmentCalls)
FragmentBuild ==
    /\ fragmentBuilder # None
    /\ fragmentBuilt' =
          Some(FragmentBuilder_build(fragmentBuilder[1], timestamp_millis(now)))
    /\ fragmentBuilder' = None
    /\ fragmentCalls' = [fragmentCalls EXCEPT !.built = Some(now)]
    /\ UNCHANGED <<now, soulVars, made, earlyVars, memoryVars, traitVars,
                   soulgraphVars>>

(***************************************************************************)
(* MemoryBuilder (memories.rs).  Memory::builder() returns the derived     *)
(* Default; MemoryBuilder::new reads the clock (t) for creation_date;      *)
(* build() reads it for last_accessed.                                     *)
(***************************************************************************)
MaxFragments == 1
MemoryBuilderDefault ==
    [memory |-> "", fragments |-> <<>>, connections |-> <<>>,
     emotional_signature |-> None, importance_score |-> 0, creation_date |-> 0,
     last_accessed |-> None, metadata |-> None]
MemoryBuilder_new(memory, t) ==
    [MemoryBuilderDefault EXCEPT !.memory = memory, !.creation_date = t]
MemoryBuilder_add_fragment(self, fragment) ==
    [self EXCEPT !.fragments = Append(@, fragment)]
MemoryBuilder_add_connection(self, connection) ==
    [self EXCEPT !.connections = Append(@, connection)]
MemoryBuilder_emotional_signature(self, signature) ==
    [self EXCEPT !.emotional_signature = Some(signature)]
MemoryBuilder_importance_score(self, score) ==
    [self EXCEPT !.importance_score = score]
MemoryBuilder_last_accessed(self, last_accessed) ==
    [self EXCEPT !.last_accessed = Some(last_accessed)]
MemoryBuilder_metadata(self, metadata) == [self EXCEPT !.metadata = Some(metadata)]
MemoryBuilder_build(self, t) ==
    [id |-> None,
     memory |-> self.memory,
     fragments |-> self.fragments,
     connections |-> self.connections,
     emotional_signature |-> IF self.emotional_signature = None
                             THEN EmotionalSignatureDefault
                             ELSE self.emotional_signature[1],
     importance_score |-> self.importance_score,
     creation_date |-> self.creation_date,
     last_accessed |-> IF self.last_accessed = None THEN t
                       ELSE self.last_accessed[1],
     metadata |-> IF self.metadata = None THEN MemoryMetadataDefault
                  ELSE self.metadata[1]]

\* created: the day the builder was made; setters: the setters called;
\* built: the day build() ran
NoMemoryCalls == [created |-> None, setters |-> {}, built |-> None]

MemoryNew(memory) ==
    /\ memoryBuilder' = Some(MemoryBuilder_new(memory, timestamp_millis(now)))
    /\ memoryCalls' = [NoMemoryCalls EXCEPT !.created = Some(now)]
    /\ memoryBuilt' = None
    /\ UNCHANGED <<now, soulVars, made, earlyVars, fragmentVars, traitVars,
                   soulgraphVars>>
\* Memory::builder()
MemoryFromDefault ==
    /\ memoryBuilder' = Some(MemoryBuilderDefault)
    /\ memoryCalls' = [NoMemoryCalls EXCEPT !.created = Some(now)]
    /\ memoryBuilt' = None
    /\ UNCHANGED <<now, soulVars, made, earlyVars, fragmentVars, traitVars,
                   soulgraphVars>>
MemorySet(name, next) ==
    /\ memoryBuilder # None
    /\ memoryBuilder' = Some(next)
    /\ memoryCalls' = [memoryCalls EXCEPT !.setters = @ \cup {name}]
    /\ UNCHANGED <<now, memoryBuilt, soulVars, made, earlyVars, fragmentVars,
                   traitVars, soulgraphVars>>
MemoryAddFragment(fragment) ==
    /\ memoryBuilder # None
    /\ Len(memoryBuilder[1].fragments) < MaxFragments
    /\ MemorySet("add_fragment",
                 MemoryBuilder_add_fragment(memoryBuilder[1], fragment))
MemoryEmotionalSignature(signature) ==
    /\ memoryBuilder # None
    /\ MemorySet("emotional_signature",
                 MemoryBuilder_emotional_signature(memoryBuilder[1], signature))
MemoryImportanceScore(score) ==
    /\ memoryBuilder # None
    /\ MemorySet("importance_score",
                 MemoryBuilder_importance_score(memoryBuilder[1], score))
MemoryLastAccessed(last_accessed) ==
    /\ memoryBuilder # None
    /\ MemorySet("last_accessed",
                 MemoryBuilder_last_accessed(memoryBuilder[1], last_accessed))
MemoryBuild ==
    /\ memoryBuilder # None
    /\ memoryBuilt' =
          Some(MemoryBuilder_build(memoryBuilder[1], timestamp_millis(now)))
    /\ memoryBuilder' = None
    /\ memoryCalls' = [memoryCalls EXCEPT !.built = Some(now)]
    /\ UNCHANGED <<now, soulVars, made, earlyVars, fragmentVars, traitVars,
                   soulgraphVars>>

(***************************************************************************)
(* The caller's steps on a TraitBuilder.  traitCalls keeps the setter      *)
(* calls in the order made: [setter, arg].                                 *)
(***************************************************************************)
MaxSetterCalls == 3
NoTraitCalls == [name |-> "", calls |-> <<>>]

TraitNew(name) ==
    /\ traitBuilder' = Some(TraitBuilder_new(name))
    /\ traitCalls' = [name |-> name, calls |-> <<>>]
    /\ traitBuilt' = None
    /\ UNCHANGED <<now, soulVars, made, earlyVars, memoryVars, fragmentVars,
                   soulgraphVars>>
TraitSet(setter, arg, next) ==
    /\ traitBuilder # None
    /\ Len(traitCalls.calls) < MaxSetterCalls
    /\ traitBuilder' = Some(next)
    /\ traitCalls' = [traitCalls EXCEPT
                         !.calls = Append(@, [setter |-> setter, arg |-> arg])]
    /\ UNCHANGED <<now, traitBuilt, soulVars, made, earlyVars, memoryVars,
                   fragmentVars, soulgraphVars>>
TraitStrength(strength) ==
    /\ traitBuilder # None
    /\ TraitSet("strength", strength,
                TraitBuilder_strength(traitBuilder[1], strength))
TraitAddExpressionRule(rule) ==
    /\ traitBuilder # None
    /\ TraitSet("add_expression_rule", rule,
                TraitBuilder_add_expression_rule(traitBuilder[1], rule))
TraitBuild ==
    /\ traitBuilder # None
    /\ traitBuilt' = Some(TraitBuilder_build(traitBuilder[1]))
    /\ traitBuilder' = None
    /\ UNCHANGED <<now, traitCalls, soulVars, made, earlyVars, memoryVars,
                   fragmentVars, soulgraphVars>>

(***************************************************************************)
(* SoulgraphBuilder (lib.rs).  build() returns a client or panics; the     *)
(* outcome is kept in soulgraphBuilt.  soulgraphCalls keeps the setter     *)
(* calls in the order made.                                                *)
(***************************************************************************)
SoulgraphBuilder_new == [key |-> None, url |-> None]
SoulgraphBuilder_api_key(self, key) == [self EXCEPT !.key = Some(key)]
SoulgraphBuilder_base_url(self, url) == [self EXCEPT !.url = Some(url)]
\* a build() that looks at the base URL before the key
SoulgraphBuilder_build_UrlFirst(self) ==
    IF self.url = None THEN Panic("Missing base url")
    ELSE IF self.key = None THEN Panic("Missing api key")
    ELSE Soulgraph_new_outcome(self.key[1], self.url[1])
SoulgraphBuilder_build(self) ==
    IF self.key = None THEN Panic("Missing api key")
    ELSE IF self.url = None THEN Panic("Missing base url")
    ELSE Soulgraph_new_outcome(self.key[1], self.url[1])

NoSoulgraphCalls == <<>>

SoulgraphBuilderNew ==
    /\ soulgraphBuilder' = Some(SoulgraphBuilder_new)
    /\ soulgraphCalls' = <<>>
    /\ soulgraphBuilt' = None
    /\ UNCHANGED <<now, soulVars, made, earlyVars, memoryVars, fragmentVars,
                   traitVars>>
SoulgraphSet(setter, arg, next) ==
    /\ soulgraphBuilder # None
    /\ Len(soulgraphCalls) < MaxSetterCalls
    /\ soulgraphBuilder' = Some(next)
    /\ soulgraphCalls' = Append(soulgraphCalls, [setter |-> setter, arg |-> arg])
    /\ UNCHANGED <<now, soulgraphBuilt, soulVars, made, earlyVars, memoryVars,
                   fragmentVars, traitVars>>
SoulgraphApiKey(key) ==
    /\ soulgraphBuilder # None
    /\ SoulgraphSet("api_key", key,
                    SoulgraphBuilder_api_key(soulgraphBuilder[1], key))
SoulgraphBaseUrl(url) ==
    /\ soulgraphBuilder # None
    /\ SoulgraphSet("base_url", url,
                    SoulgraphBuilder_base_url(soulgraphBuilder[1], url))
SoulgraphBuild ==
    /\ soulgraphBuilder # None
    /\ soulgraphBuilt' = Some(SoulgraphBuilder_build(soulgraphBuilder[1]))
    /\ soulgraphBuilder' = None
    /\ UNCHANGED <<now, soulgraphCalls, soulVars, made, earlyVars, memoryVars,
                   fragmentVars, traitVars>>

(***************************************************************************)
(* Default::default() of the named type, evaluated by the caller; d1 and   *)
(* d2 are the days the clock shows at its two reads.                       *)
(***************************************************************************)
MaxMade == 2
DefaultKinds == {"Entity", "Personality", "Voice", "Relationship", "Soul"}
ReadsClockTwice(kind) == kind \in {"Personality", "Soul"}
DefaultOf(kind, d1, d2) ==
    CASE kind = "Entity" -> EntityDefault
      [] kind = "Personality" -> PersonalityDefault(d1, d2)
      [] kind = "Voice" -> VoiceDefault
      [] kind = "Relationship" -> RelationshipDefault
      [] kind = "Soul" -> SoulDefault(d1, d2)
      [] kind = "Memory" -> MemoryDefault(timestamp_millis(d1))
      [] kind = "Fragment" -> FragmentDefault(timestamp_millis(d1))

Default(kind, d2) ==
    /\ Len(made) < MaxMade
    /\ d2 \in {now, now + 1}
    /\ d2 <= MaxDay
    /\ ~ReadsClockTwice(kind) => d2 = now
    /\ made' = Append(made, [kind |-> kind, value |-> DefaultOf(kind, now, d2)])
    /\ now' = d2
    /\ UNCHANGED <<soulVars, earlyVars, memoryVars, fragmentVars, traitVars,
                   soulgraphVars>>

(***************************************************************************)
(* Inputs: what the caller passes and what the transport may answer.       *)
(***************************************************************************)
ApiKeys == {"test-key"}
FewUrls == {"http://test.com"}
BaseUrls == {"http://test.com", "http://test.com/v1"}
Ids == {"abc", "a/b"}
Statuses == {200, 201, 204, 404, 500}

\* the instances the caller sends
SentSoul == SoulDefault(1, 1)
SentPersonality == PersonalityDefault(1, 1)
SentMemory == MemoryDefault(1)

\* the instances the remote store holds
StoredEntity ==
    [id |-> Some(UuidB), form |-> "human", occupation |-> "psychologist",
     gender |-> Some("female"), age |-> Some("26"), background |-> None,
     expertise |-> Some(<<"market psychology", "risk management">>)]
StoredPersonality ==
    [id |-> Some(UuidA),
     name |-> "Dr. Luna",
     traits |-> << [id |-> None, trait |-> "sarcastic", strength |-> 9,
                    expression_rules |-> None] >>,
     values |-> Some(<< [id |-> None, name |-> "brutal honesty",
                         importance |-> 8, expression |-> "spurs growth",
                         conflicts |-> Some(<<>>)] >>),
     voice |-> Some([id |-> None, style |-> "ironic", tone |-> "edgy",
                     qualities |-> <<"deadpan">>, patterns |-> <<>>]),
     relationship |-> Some([id |-> None, style |-> "tough love",
                            boundaries |-> << [id |-> None,
                                               type |-> "emotional support",
                                               description |-> "stern",
                                               enforcement |-> "Situational"] >>]),
     metadata |-> Some([creation_date |-> "2025-01-11",
                        last_modified |-> "2025-01-11"])]
StoredSoul ==
    [id |-> Some(UuidA), version |-> "1.0.0", entity |-> StoredEntity,
     personality |-> StoredPersonality]
StoredMemory ==
    [id |-> Some(UuidB), memory |-> "test memory",
     fragments |-> << [id |-> None, fragment_type |-> "Reflection",
                       content |-> "c", timestamp |-> 3, importance |-> 5,
                       emotional_valence |-> -5,
                       context |-> [id |-> None, topic |-> "general",
                                    user_state |-> "neutral"]] >>,
     connections |-> <<UuidA>>,
     emotional_signature |-> [id |-> None, valence |-> 5, intensity |-> 7],
     importance_score |-> 8, creation_date |-> 2, last_accessed |-> 3,
     metadata |-> MemoryMetadataDefault]

\* response bodies: the three stored records, a Personality without traits,
\* a Memory whose importance_score is 1.5, and a body that is not JSON
Bodies ==
    {EncSoul(StoredSoul),
     EncPersonality(StoredPersonality),
     EncPersonality([StoredPersonality EXCEPT !.traits = <<>>]),
     EncMemory(StoredMemory),
     EncMemory([StoredMemory EXCEPT !.importance_score = 15]),
     JInvalid}
Responses ==
    {Err("transport")} \cup {Ok([status |-> s, body |-> b]) : s \in Statuses, b \in Bodies}

\* a smaller choice for the runs with several operations in flight
FewIds == {"abc"}
FewResponses ==
    {Err("transport")}
    \cup {Ok([status |-> StatusOK, body |-> b]) :
            b \in {EncSoul(StoredSoul), EncPersonality(StoredPersonality),
                   EncMemory(StoredMemory)}}
    \cup {Ok([status |-> 404, body |-> JInvalid])}

(***************************************************************************)
(* The steps a caller and the transport can take, over given inputs.       *)
(***************************************************************************)
NewClient(limit, urls) ==
    /\ Len(clients) < limit
    /\ \E k \in ApiKeys, u \in urls : SoulgraphNew(k, u)

InitClient ==
    /\ clients = <<>>
    /\ live = <<>>
    /\ calls = <<>>
    /\ sends = <<>>

InitEntity ==
    /\ entityBuilder = None
    /\ entitySetters = {}
    /\ entityBuilt = None

InitPersonality ==
    /\ now = 0
    /\ personalityBuilder = None
    /\ personalityCalls = NoCalls
    /\ personalityBuilt = None

InitValue ==
    /\ valueBuilder = None
    /\ valueCalls = NoValueCalls
    /\ valueBuilt = None

InitVoice ==
    /\ voiceBuilder = None
    /\ voiceSetters = {}
    /\ voiceBuilt = None

InitCodec == codec = <<>>

InitSoul ==
    /\ soulBuilder = None
    /\ soulCalls = NoSoulCalls
    /\ soulBuilt = None
    /\ made = <<>>

InitMemory ==
    /\ memoryBuilder = None
    /\ memoryCalls = NoMemoryCalls
    /\ memoryBuilt = None

InitFragment ==
    /\ fragmentBuilder = None
    /\ fragmentCalls = NoFragmentCalls
    /\ fragmentBuilt = None

InitTrait ==
    /\ traitBuilder = None
    /\ traitCalls = NoTraitCalls
    /\ traitBuilt = None

InitSoulgraph ==
    /\ soulgraphBuilder = None
    /\ soulgraphCalls = NoSoulgraphCalls
    /\ soulgraphBuilt = None

Init ==
    /\ InitClient
    /\ InitEntity
    /\ InitPersonality
    /\ InitValue
    /\ InitVoice
    /\ InitCodec
    /\ InitSoul
    /\ InitMemory
    /\ InitFragment
    /\ InitTrait
    /\ InitSoulgraph

\* one client, one operation, every answer of the transport
NextProtocol ==
    \/ NewClient(1, BaseUrls)
    \/ \E c \in 1..Len(clients), id \in Ids : Soul_get(c, id)
    \/ \E c \in 1..Len(clients) : Soul_create(c, SentSoul)
    \/ \E c \in 1..Len(clients), id \in Ids : Soul_delete(c, id)
    \/ \E c \in 1..Len(clients), id \in Ids : Personality_get(c, id)
    \/ \E c \in 1..Len(clients) : Personality_create(c, SentPersonality)
    \/ \E c \in 1..Len(clients), id \in Ids :
          Personality_update(c, id, SentPersonality)
    \/ \E c \in 1..Len(clients), id \in Ids : Memory_get(c, id)
    \/ \E c \in 1..Len(clients) : Memory_create(c, SentMemory)
    \/ \E c \in 1..Len(clients), id \in Ids : Memory_delete(c, id)
    \/ \E c \in 1..Len(clients), r \in Responses : TransportRespond(c, r)
SpecProtocol == Init /\ [][NextProtocol]_vars

\* several clients with an operation in flight on each
NextConcurrent ==
    \/ NewClient(MaxClients, FewUrls)
    \/ \E c \in 1..Len(clients), id \in FewIds : Soul_get(c, id)
    \/ \E c \in 1..Len(clients) : Soul_create(c, SentSoul)
    \/ \E c \in 1..Len(clients), id \in FewIds : Soul_delete(c, id)
    \/ \E c \in 1..Len(clients), id \in FewIds : Personality_get(c, id)
    \/ \E c \in 1..Len(clients) : Personality_create(c, SentPersonality)
    \/ \E c \in 1..Len(clients), id \in FewIds :
          Personality_update(c, id, SentPersonality)
    \/ \E c \in 1..Len(clients), id \in FewIds : Memory_get(c, id)
    \/ \E c \in 1..Len(clients) : Memory_create(c, SentMemory)
    \/ \E c \in 1..Len(clients), id \in FewIds : Memory_delete(c, id)
    \/ \E c \in 1..Len(clients), r \in FewResponses : TransportRespond(c, r)
SpecConcurrent == Init /\ [][NextConcurrent]_vars

\* the inputs of the builders
Forms == {"human", "ai"}
Occupations == {"developer"}
Expertises == {<<>>, <<"programming", "rust">>}
Names == {"Test", "Dr. Luna"}
Traits ==
    {TraitBuilder_build(TraitBuilder_new("test")),
     TraitBuilder_build(
         TraitBuilder_add_expression_rule(
             TraitBuilder_strength(TraitBuilder_new("kind"), 7), "helps others"))}
Values == {[id |-> None, name |-> "courage", importance |-> 8,
            expression |-> "faces challenges", conflicts |-> None]}
MetadataEntries ==
    {<<"creation_date", "2025-01-11">>, <<"last_modified", "2025-01-11">>,
     <<"author", "me">>}

NextEntity ==
    \/ EntityNew
    \/ \E form \in Forms : EntityForm(form)
    \/ \E occupation \in Occupations : EntityOccupation(occupation)
    \/ EntityGender("female")
    \/ EntityAge("30")
    \/ EntityBackground("Computer Science graduate")
    \/ \E expertise \in Expertises : EntityExpertise(expertise)
    \/ EntityBuild
SpecEntity == Init /\ [][NextEntity]_vars

NextPersonality ==
    \/ PersonalityNew
    \/ PersonalityId(UuidA)
    \/ \E name \in Names : PersonalityName(name)
    \/ \E trait \in Traits : PersonalityAddTrait(trait)
    \/ \E value \in Values : PersonalityAddValue(value)
    \/ PersonalityVoice(VoiceDefault)
    \/ PersonalityRelationship(RelationshipDefault)
    \/ \E e \in MetadataEntries : PersonalitySetMetadata(e[1], e[2])
    \/ \E d2 \in 0..MaxDay : PersonalityBuild(d2)
    \/ Tick
SpecPersonality == Init /\ [][NextPersonality]_vars

\* what a caller passes to the ValueBuilder: numbers below, inside and above
\* [0, 1], and NaN
ImportanceInputs == {-5, 0, 3, 10, 15, NaN}
ValueNames == {"honesty"}
ValueExpressions == {"tells the truth"}
ConflictLists ==
    {<<>>,
     <<[id |-> None, value |-> "kindness", resolution |-> "truth first"]>>}

NextValue ==
    \/ ValueNew
    \/ \E name \in ValueNames : ValueName(name)
    \/ \E importance \in ImportanceInputs : ValueImportance(importance)
    \/ \E expression \in ValueExpressions : ValueExpression(expression)
    \/ \E conflicts \in ConflictLists : ValueConflicts(conflicts)
    \/ ValueBuild
SpecValue == Init /\ [][NextValue]_vars

Styles == {"formal", "casual"}
Tones == {"warm", "dry"}
QualityLists == {<<>>, <<"clear", "calm">>}
PatternLists == {<<>>, <<"uses metaphors">>}

NextVoice ==
    \/ VoiceNew
    \/ \E style \in Styles : VoiceStyle(style)
    \/ \E tone \in Tones : VoiceTone(tone)
    \/ \E qualities \in QualityLists : VoiceQualities(qualities)
    \/ \E patterns \in PatternLists : VoicePatterns(patterns)
    \/ VoiceBuild
SpecVoice == Init /\ [][NextVoice]_vars

(***************************************************************************)
(* serde: serde_json::from_value::<T> and serde_json::to_value of a record *)
(* of the named type, as the derived Serialize / Deserialize impls and the *)
(* `with` modules define them.                                             *)
(***************************************************************************)
RecordKinds ==
    {"Entity", "Trait", "Value", "ValueConflict", "Voice", "Relationship",
     "Boundary", "Personality", "Soul", "Memory", "EmotionalSignature",
     "MemoryMetadata", "Fragment", "Context"}
EnumKinds == {"FragmentType", "EnforcementType"}

Accepts(kind, j) ==
    CASE kind = "Entity" -> EntityOk(j)
      [] kind = "Trait" -> TraitOk(j)
      [] kind = "Value" -> ValueOk(j)
      [] kind = "ValueConflict" -> ValueConflictOk(j)
      [] kind = "Voice" -> VoiceOk(j)
      [] kind = "Relationship" -> RelationshipOk(j)
      [] kind = "Boundary" -> BoundaryOk(j)
      [] kind = "Personality" -> PersonalityOk(j)
      [] kind = "Soul" -> SoulOk(j)
      [] kind = "Memory" -> MemoryOk(j)
      [] kind = "EmotionalSignature" -> EmotionalSignatureOk(j)
      [] kind = "MemoryMetadata" -> MemoryMetadataOk(j)
      [] kind = "Fragment" -> FragmentOk(j)
      [] kind = "Context" -> ContextOk(j)
      [] kind = "FragmentType" -> FragmentTypeOk(j)
      [] kind = "EnforcementType" -> EnforcementOk(j)
Read(kind, j) ==
    CASE kind = "Entity" -> EntityVal(j)
      [] kind = "Trait" -> TraitVal(j)
      [] kind = "Value" -> ValueVal(j)
      [] kind = "ValueConflict" -> ValueConflictVal(j)
      [] kind = "Voice" -> VoiceVal(j)
      [] kind = "Relationship" -> RelationshipVal(j)
      [] kind = "Boundary" -> BoundaryVal(j)
      [] kind = "Personality" -> PersonalityVal(j)
      [] kind = "Soul" -> SoulVal(j)
      [] kind = "Memory" -> MemoryVal(j)
      [] kind = "EmotionalSignature" -> EmotionalSignatureVal(j)
      [] kind = "MemoryMetadata" -> MemoryMetadataVal(j)
      [] kind = "Fragment" -> FragmentVal(j)
      [] kind = "Context" -> ContextVal(j)
      [] kind = "FragmentType" -> FragmentTypeVal(j)
      [] kind = "EnforcementType" -> EnforcementVal(j)
from_value(kind, j) == IF Accepts(kind, j) THEN Ok(Read(kind, j)) ELSE Err("decode")
to_value(kind, x) ==
    CASE kind = "Entity" -> EncEntity(x)
      [] kind = "Trait" -> EncTrait(x)
      [] kind = "Value" -> EncValue(x)
      [] kind = "ValueConflict" -> EncValueConflict(x)
      [] kind = "Voice" -> EncVoice(x)
      [] kind = "Relationship" -> EncRelationship(x)
      [] kind = "Boundary" -> EncBoundary(x)
      [] kind = "Personality" -> EncPersonality(x)
      [] kind = "Soul" -> EncSoul(x)
      [] kind = "Memory" -> EncMemory(x)
      [] kind = "EmotionalSignature" -> EncEmotionalSignature(x)
      [] kind = "MemoryMetadata" -> EncMemoryMetadata(x)
      [] kind = "Fragment" -> EncFragment(x)
      [] kind = "Context" -> EncContext(x)
      [] kind = "FragmentType" -> EncFragmentType(x)
      [] kind = "EnforcementType" -> EncEnforcement(x)

\* instances a program may hold, with the optional fields absent and present
SomeConflict == [id |-> None, value |-> "kindness", resolution |-> "truth first"]
ValueInstances ==
    {[id |-> i, name |-> "honesty", importance |-> m,
      expression |-> "tells the truth", conflicts |-> c] :
        i \in {None, Some(UuidA)},
        m \in {0, 5, 10, -5, 15, NaN},
        c \in {None, Some(<<>>),
               Some(<<SomeConflict, [SomeConflict EXCEPT !.id = Some(UuidB)]>>)}}
SomeTrait == [id |-> None, trait |-> "kind", strength |-> 7, expression_rules |-> None]
HeldInstances ==
    {<<"Value", x>> : x \in ValueInstances}
    \cup {<<"Entity", EntityDefault>>, <<"Entity", StoredEntity>>,
          <<"Trait", SomeTrait>>,
          <<"Trait", [SomeTrait EXCEPT !.id = Some(UuidA),
                                       !.expression_rules = Some(<<"helps">>)]>>,
          <<"ValueConflict", SomeConflict>>,
          <<"Voice", VoiceDefault>>,
          <<"Relationship", RelationshipDefault>>,
          <<"Boundary", BoundaryDefault>>,
          <<"Boundary", [BoundaryDefault EXCEPT !.id = Some(UuidA),
                                                !.enforcement = "Strict"]>>,
          <<"Personality", PersonalityDefault(1, 1)>>,
          <<"Personality", StoredPersonality>>,
          <<"Soul", SoulDefault(1, 1)>>, <<"Soul", StoredSoul>>,
          <<"Memory", MemoryDefault(1)>>, <<"Memory", StoredMemory>>,
          <<"EmotionalSignature", EmotionalSignatureDefault>>,
          <<"MemoryMetadata", MemoryMetadataDefault>>,
          <<"Fragment", FragmentDefault(1)>>,
          <<"Fragment", [FragmentDefault(1) EXCEPT !.id = Some(UuidA),
                                                   !.fragment_type = "Reflection"]>>,
          <<"Context", ContextDefault>>,
          <<"Context", [ContextDefault EXCEPT !.id = Some(UuidB)]>>}
    \cup {<<"FragmentType", e>> : e \in FragmentType}
    \cup {<<"EnforcementType", e>> : e \in EnforcementType}

\* payloads that may arrive: numbers written as floats or as integers, inside
\* and outside the declared intervals, known and unknown enum tags
ValuePayloads ==
    {JObj([name |-> JStr("honesty"), importance |-> m,
           expression |-> JStr("tells the truth")] @@ extra) :
        m \in {JFloat(-5), JFloat(0), JFloat(5), JFloat(10), JFloat(15),
               JInt(1), JInt(2), JNull},
        extra \in {EmptyMap, ("id" :> JStr(UuidA)), ("conflicts" :> JNull),
                   ("conflicts" :> JArr(<<EncValueConflict(SomeConflict)>>))}}
NestedValuePayloads ==
    {<<"Personality",
       JObj(("values" :> JArr(<<v>>)) @@ EncPersonality(StoredPersonality).v)>> :
        v \in {EncValue(x) : x \in {y \in ValueInstances :
                                        y.id = None /\ y.conflicts = None}}}
    \cup
    {<<"Soul",
       JObj(("personality" :>
                JObj(("values" :> JArr(<<v>>)) @@ EncPersonality(StoredPersonality).v))
            @@ EncSoul(StoredSoul).v)>> :
        v \in {EncValue(x) : x \in {y \in ValueInstances :
                                        y.id = None /\ y.conflicts = None}}}
EmotionalSignaturePayloads ==
    {JObj([valence |-> v, intensity |-> n] @@ extra) :
        v \in {JFloat(-11), JFloat(-10), JFloat(0), JFloat(10), JFloat(11),
               JInt(-1), JInt(1), JInt(2)},
        n \in {JFloat(-1), JFloat(0), JFloat(10), JFloat(11), JInt(0), JInt(1),
               JInt(2)},
        extra \in {EmptyMap, ("id" :> JStr(UuidA))}}
FragmentInstances ==
    {[FragmentDefault(1) EXCEPT !.id = i, !.importance = m,
                                !.emotional_valence = e] :
        i \in {None, Some(UuidA)},
        m \in {-1, 0, 10, 11},
        e \in {-11, -10, 10, 11}}
FragmentPayloads == {EncFragment(x) : x \in FragmentInstances}
GoodFragment == [FragmentDefault(1) EXCEPT !.importance = 10,
                                           !.emotional_valence = -10]
MemoryPayloads ==
    {EncMemory([StoredMemory EXCEPT !.importance_score = m, !.fragments = f,
                                    !.emotional_signature = e]) :
        m \in {0, 10, 11, -1},
        f \in {<<>>, <<GoodFragment>>,
               <<GoodFragment, [GoodFragment EXCEPT !.importance = 11]>>,
               <<[GoodFragment EXCEPT !.emotional_valence = -11], GoodFragment>>},
        e \in {[id |-> None, valence |-> -10, intensity |-> 10],
               [id |-> None, valence |-> 11, intensity |-> 5],
               [id |-> None, valence |-> 0, intensity |-> -1]}}
EnumTexts ==
    {"observation", "reflection", "strict", "flexible", "situational",
     "moderate", "Strict", "Observation", ""}
BoundaryPayloads ==
    {JObj(("enforcement" :> e) @@ EncBoundary(BoundaryDefault).v) :
        e \in {JStr(t) : t \in EnumTexts} \cup {JNull, JInt(1)}}
ReceivedPayloads ==
    {<<"Value", j>> : j \in ValuePayloads}
    \cup NestedValuePayloads
    \cup {<<"EmotionalSignature", j>> : j \in EmotionalSignaturePayloads}
    \cup {<<"Fragment", j>> : j \in FragmentPayloads}
    \cup {<<"Memory", j>> : j \in MemoryPayloads}
    \cup {<<"Boundary", j>> : j \in BoundaryPayloads}
    \cup {<<k, JStr(t)>> : k \in EnumKinds, t \in EnumTexts}
    \cup {<<k, JInvalid>> : k \in RecordKinds}

\* the longest chain of serde steps followed on one record
MaxCodecSteps == 4

\* a payload of the named type arrives
CodecReceive(kind, j) ==
    /\ codec' = <<[op |-> "receive", kind |-> kind, out |-> j]>>
    /\ UNCHANGED <<clientVars, entityVars, personalityVars, valueVars, voiceVars,
                   lateVars>>
\* the program holds an instance of the named type
CodecHold(kind, x) ==
    /\ codec' = <<[op |-> "hold", kind |-> kind, out |-> Ok(x)]>>
    /\ UNCHANGED <<clientVars, entityVars, personalityVars, valueVars, voiceVars,
                   lateVars>>
\* the JSON value at hand is decoded
CodecDecode ==
    /\ codec # <<>>
    /\ Len(codec) < MaxCodecSteps
    /\ codec[Len(codec)].op \in {"receive", "encode"}
    /\ LET last == codec[Len(codec)]
       IN  codec' = Append(codec, [op |-> "decode", kind |-> last.kind,
                                   out |-> from_value(last.kind, last.out)])
    /\ UNCHANGED <<clientVars, entityVars, personalityVars, valueVars, voiceVars,
                   lateVars>>
\* the instance at hand is encoded
CodecEncode ==
    /\ codec # <<>>
    /\ Len(codec) < MaxCodecSteps
    /\ codec[Len(codec)].op \in {"hold", "decode"}
    /\ codec[Len(codec)].out.ok
    /\ LET last == codec[Len(codec)]
       IN  codec' = Append(codec, [op |-> "encode", kind |-> last.kind,
                                   out |-> to_value(last.kind, last.out.val)])
    /\ UNCHANGED <<clientVars, entityVars, personalityVars, valueVars, voiceVars,
                   lateVars>>

NextCodec ==
    \/ \E p \in ReceivedPayloads : CodecReceive(p[1], p[2])
    \/ \E p \in HeldInstances : CodecHold(p[1], p[2])
    \/ CodecDecode
    \/ CodecEncode
SpecCodec == Init /\ [][NextCodec]_vars

\* what a caller passes to the SoulBuilder
Versions == {"2.0", "3.0"}

NextSoul ==
    \/ SoulNew
    \/ \E version \in Versions : SoulVersion(version)
    \/ SoulEntity(StoredEntity)
    \/ SoulPersonality(StoredPersonality)
    \/ \E d2 \in 0..MaxDay : SoulBuild(d2)
    \/ \E d2 \in 0..MaxDay : Default("Soul", d2)
    \/ Tick
SpecSoul == Init /\ [][NextSoul]_vars

NextDefault ==
    \/ \E kind \in DefaultKinds, d2 \in 0..MaxDay : Default(kind, d2)
    \/ Tick
SpecDefault == Init /\ [][NextDefault]_vars

\* the keys a caller may pass: visible text, text with a tab, text with a
\* line feed
BuilderKeys == {"test-key", "k\tv", "k\nv"}
UnprintableKeys == {"k\nv"}

NextSoulgraph ==
    \/ SoulgraphBuilderNew
    \/ \E key \in BuilderKeys : SoulgraphApiKey(key)
    \/ \E url \in BaseUrls : SoulgraphBaseUrl(url)
    \/ SoulgraphBuild
SpecSoulgraph == Init /\ [][NextSoulgraph]_vars

\* what a caller passes to the TraitBuilder
TraitNames == {"adaptable"}
Strengths == {7, 9}
Rules == {"rule1", "rule2"}

NextTrait ==
    \/ \E name \in TraitNames : TraitNew(name)
    \/ \E strength \in Strengths : TraitStrength(strength)
    \/ \E rule \in Rules : TraitAddExpressionRule(rule)
    \/ TraitBuild
SpecTrait == Init /\ [][NextTrait]_vars

\* what a caller passes to the Memory and Fragment builders
MemoryTexts == {"test memory"}
FragmentContents == {"saw a bird"}
SomeSignature == [id |-> None, valence |-> 5, intensity |-> 7]

\* the builders of the timestamped records, with the clock running
NextStamps ==
    \/ \E memory \in MemoryTexts : MemoryNew(memory)
    \/ MemoryFromDefault
    \/ MemoryLastAccessed(timestamp_millis(0))
    \/ MemoryBuild
    \/ \E content \in FragmentContents : FragmentNew("Reflection", content)
    \/ FragmentFromDefault
    \/ FragmentTimestamp(timestamp_millis(0))
    \/ FragmentBuild
    \/ Tick
SpecStamps == Init /\ [][NextStamps]_vars

\* every way to obtain a Memory
NextMemory ==
    \/ \E memory \in MemoryTexts : MemoryNew(memory)
    \/ MemoryFromDefault
    \/ MemoryLastAccessed(timestamp_millis(0))
    \/ MemoryImportanceScore(3)
    \/ MemoryEmotionalSignature(SomeSignature)
    \/ MemoryBuild
    \/ Default("Memory", now)
    \/ Tick
SpecMemory == Init /\ [][NextMemory]_vars

\* numbers a caller may pass to the numeric setters of the Memory and
\* Fragment builders: inside and outside the range the decoders accept, NaN
ScoreInputs == {3, 15, NaN}
SignatureInputs == {SomeSignature, [id |-> None, valence |-> 20, intensity |-> 5]}
FragmentImportanceInputs == {15}
ValenceInputs == {-5}
\* a Fragment as its builder makes it, to be added to a Memory
WireFragments ==
    {FragmentBuilder_build(
         FragmentBuilder_importance(
             FragmentBuilder_new("Reflection", "saw a bird"), 15),
         timestamp_millis(0))}

\* a Memory or a Fragment is built, then written and read back
NextWire ==
    \/ \E memory \in MemoryTexts : MemoryNew(memory)
    \/ \E score \in ScoreInputs : MemoryImportanceScore(score)
    \/ \E signature \in SignatureInputs : MemoryEmotionalSignature(signature)
    \/ \E fragment \in WireFragments : MemoryAddFragment(fragment)
    \/ MemoryBuild
    \/ \E content \in FragmentContents : FragmentNew("Reflection", content)
    \/ \E importance \in FragmentImportanceInputs : FragmentImportance(importance)
    \/ \E valence \in ValenceInputs : FragmentEmotionalValence(valence)
    \/ FragmentBuild
    \/ memoryBuilt # None /\ CodecHold("Memory", memoryBuilt[1])
    \/ fragmentBuilt # None /\ CodecHold("Fragment", fragmentBuilt[1])
    \/ CodecEncode
    \/ CodecDecode
SpecWire == Init /\ [][NextWire]_vars

(***************************************************************************)
(* Properties of the resource client protocol.                             *)
(***************************************************************************)
Kinds == {"Soul", "Personality", "Memory"}
OpNames == {"get", "create", "update", "delete"}
Issued == {c \in 1..Len(calls) : calls[c] # None}
Done == {c \in Issued : calls[c][1].pc = "done"}
\* the failure value of each resource kind
KindFailure == [Soul |-> Err("CorruptSoul"),
                Personality |-> Err("CorruptPersonality"),
                Memory |-> Err("CorruptMemory")]
IsSuccessStatus(status) == 200 <= status /\ status <= 299
Decodes(kind, body) ==
    CASE kind = "Soul" -> SoulOk(body)
      [] kind = "Personality" -> PersonalityOk(body)
      [] kind = "Memory" -> MemoryOk(body)
Decoded(kind, body) ==
    CASE kind = "Soul" -> SoulVal(body)
      [] kind = "Personality" -> PersonalityVal(body)
      [] kind = "Memory" -> MemoryVal(body)

\* C1: get, create and update return a typed instance or the kind's one
\* failure value; a transport failure, a non-success status and a success
\* status with an undecodable body all give that same failure value.
C1_OpaqueFailure ==
    \A c \in Done :
        LET call == calls[c][1]
            r == call.response[1]
            res == call.result[1]
        IN  call.op \in {"get", "create", "update"} =>
                /\ res.ok \/ res = KindFailure[call.kind]
                /\ (\/ ~r.ok
                    \/ ~IsSuccessStatus(r.val.status)
                    \/ ~Decodes(call.kind, r.val.body))
                      => res = KindFailure[call.kind]
\* a get answered 200 with a body that does not decode, next to the failure
\* it returned
C1_Witness ==
    \E c \in Done :
        LET call == calls[c][1]
            r == call.response[1]
        IN  /\ call.op = "get"
            /\ r.ok
            /\ r.val.status = 200
            /\ ~Decodes(call.kind, r.val.body)
            /\ call.result[1] = KindFailure[call.kind]

\* C2: on HTTP 200 with a body that decodes into the resource type, get,
\* create and update return exactly the instance decoded from the body.
C2_ReturnsDecoded ==
    \A c \in Done :
        LET call == calls[c][1]
            r == call.response[1]
            res == call.result[1]
        IN  (/\ call.op \in {"get", "create", "update"}
             /\ r.ok
             /\ r.val.status = 200
             /\ Decodes(call.kind, r.val.body))
            => /\ res = Ok(Decoded(call.kind, r.val.body))
               /\ r.val.body = EncPersonality(StoredPersonality)
                     => res = Ok(StoredPersonality)
               /\ r.val.body = EncSoul(StoredSoul) => res = Ok(StoredSoul)
\* a create whose answer decodes to an instance other than the one sent
C2_Witness ==
    \E c \in Done :
        LET call == calls[c][1]
            r == call.response[1]
        IN  /\ call.op = "create"
            /\ r.ok
            /\ r.val.status = 200
            /\ Decodes(call.kind, r.val.body)
            /\ call.result[1].ok
            /\ call.result[1].val # call.sent[1]

\* C3: delete returns confirmation for every success status (any 2xx) and
\* the kind's failure value for every other outcome.
C3_DeleteAnySuccess ==
    \A c \in Done :
        LET call == calls[c][1]
            r == call.response[1]
            res == call.result[1]
        IN  call.op = "delete" =>
                IF r.ok /\ IsSuccessStatus(r.val.status)
                THEN res = Ok(Unit)
                ELSE res = KindFailure[call.kind]

\* the call of operation op of resource kind, with some identifier
Invoke(kind, op, c) ==
    \/ kind = "Soul" /\ op = "get" /\ \E id \in Ids : Soul_get(c, id)
    \/ kind = "Soul" /\ op = "create" /\ Soul_create(c, SentSoul)
    \/ kind = "Soul" /\ op = "delete" /\ \E id \in Ids : Soul_delete(c, id)
    \/ kind = "Personality" /\ op = "get" /\ \E id \in Ids : Personality_get(c, id)
    \/ kind = "Personality" /\ op = "create"
          /\ Personality_create(c, SentPersonality)
    \/ kind = "Personality" /\ op = "update"
          /\ \E id \in Ids : Personality_update(c, id, SentPersonality)
    \/ kind = "Memory" /\ op = "get" /\ \E id \in Ids : Memory_get(c, id)
    \/ kind = "Memory" /\ op = "create" /\ Memory_create(c, SentMemory)
    \/ kind = "Memory" /\ op = "delete" /\ \E id \in Ids : Memory_delete(c, id)

\* C4: each of get, create, update and delete can be called for each of
\* Soul, Personality and Memory.
C4_AllOperations ==
    \A c \in 1..Len(clients) :
        live[c] => \A kind \in Kinds, op \in OpNames : ENABLED Invoke(kind, op, c)

\* C5: for every resource kind, get, update and delete address
\* base_url + "/personality/" + id and create addresses
\* base_url + "/personality"; the identifier is inserted unchanged.
C5_Path ==
    \A c \in Issued :
        LET call == calls[c][1]
        IN  call.request.url =
                IF call.op = "create"
                THEN clients[c].base_url \o "/personality"
                ELSE clients[c].base_url \o "/personality/" \o call.id[1]
\* a Memory get of "a/b" on the client of http://test.com/v1
C5_Witness ==
    \E c \in Issued :
        /\ calls[c][1].kind = "Memory"
        /\ calls[c][1].op = "get"
        /\ calls[c][1].request.url = "http://test.com/v1/personality/a/b"

\* C6: no operation changes a client's configuration, and a client that
\* has issued an operation can issue further ones.
C6_ClientReusable ==
    [][\A c \in 1..Len(clients) :
          /\ clients'[c] = clients[c]
          /\ live[c] => live'[c]]_vars

\* two operations with the same arguments, the same client configuration
\* and the same answer have the same result
SameInput(c, d) ==
    /\ clients[c] = clients[d]
    /\ calls[c][1].kind = calls[d][1].kind
    /\ calls[c][1].op = calls[d][1].op
    /\ calls[c][1].id = calls[d][1].id
    /\ calls[c][1].sent = calls[d][1].sent
    /\ calls[c][1].response = calls[d][1].response
Determined ==
    \A c \in Done, d \in Done :
        SameInput(c, d) => calls[c][1].result = calls[d][1].result

\* C7: operations are independent: under every interleaving a step of one
\* operation leaves every other operation and every client untouched, a
\* result once returned never changes, and the result depends only on the
\* operation's own arguments and the answer to its own request.
C7_Independent ==
    [][/\ \A c \in 1..Len(calls), d \in 1..Len(calls) :
             (c # d /\ calls'[c] # calls[c]) => calls'[d] = calls[d]
       /\ \A c \in Done : calls'[c] = calls[c]
       /\ \A c \in 1..Len(clients) : clients'[c] = clients[c]
       /\ Determined']_vars
\* two operations done, one failed and one succeeded
C7_Witness ==
    \E c \in Done, d \in Done :
        /\ c # d
        /\ ~calls[c][1].result[1].ok
        /\ calls[d][1].result[1].ok
        /\ calls[d][1].kind = "Personality"

(***************************************************************************)
(* Properties of the builders.                                             *)
(***************************************************************************)
\* C8: EntityBuilder::build succeeds exactly when form and occupation were
\* both set; it fails with MissingForm whenever form was never set and with
\* MissingOccupation when only occupation is missing; with only form and
\* occupation set, every optional field of the result is absent.
C8_EntityRequired ==
    entityBuilt # None =>
        LET res == entityBuilt[1]
        IN  /\ res.ok <=> {"form", "occupation"} \subseteq entitySetters
            /\ "form" \notin entitySetters => res = Err("MissingForm")
            /\ ("form" \in entitySetters /\ "occupation" \notin entitySetters)
                  => res = Err("MissingOccupation")
            /\ entitySetters = {"form", "occupation"}
                  => /\ res.ok
                     /\ res.val.gender = None
                     /\ res.val.age = None
                     /\ res.val.background = None
                     /\ res.val.expertise = None
\* build() after occupation and other setters, form never set
C8_Witness ==
    /\ entityBuilt = Some(Err("MissingForm"))
    /\ {"occupation", "gender"} \subseteq entitySetters

\* C9: PersonalityBuilder::build fails with MissingName whenever name was
\* never set, with NoTraits when name was set and no trait added, and
\* otherwise succeeds with the traits in the order they were added.
C9_PersonalityRequired ==
    personalityBuilt # None =>
        LET res == personalityBuilt[1]
            log == personalityCalls
        IN  /\ ~log.name => res = Err("MissingName")
            /\ (log.name /\ log.traits = <<>>) => res = Err("NoTraits")
            /\ (log.name /\ log.traits # <<>>)
                  => res.ok /\ res.val.traits = log.traits
\* build() with traits added and no name
C9_Witness ==
    /\ personalityBuilt = Some(Err("MissingName"))
    /\ Len(personalityCalls.traits) = 2

\* C10: every Personality built has metadata holding both creation_date
\* and last_modified, whatever metadata the caller supplied.
C10_Stamped ==
    (personalityBuilt # None /\ personalityBuilt[1].ok) =>
        /\ personalityBuilt[1].val.metadata # None
        /\ {"creation_date", "last_modified"}
              \subseteq DOMAIN personalityBuilt[1].val.metadata[1]
\* a build after the caller supplied an unrelated key and one stamp only
C10_Witness ==
    /\ personalityBuilt # None
    /\ personalityBuilt[1].ok
    /\ DOMAIN personalityCalls.metadata = {"author", "last_modified"}

\* C11: every metadata entry the caller supplied through set_metadata,
\* creation_date and last_modified included, has the caller's value in the
\* built Personality, on whatever day build() runs.
C11_MetadataKept ==
    (personalityBuilt # None /\ personalityBuilt[1].ok) =>
        \A k \in DOMAIN personalityCalls.metadata :
            personalityBuilt[1].val.metadata[1][k] = personalityCalls.metadata[k]

\* C12: a ValueBuilder with name and expression set and importance(x) called
\* builds successfully with importance min(max(x, 0), 1), whatever x is; so
\* the importance of every built Value lies in [0, 1].
C12_Clamped ==
    (/\ valueBuilt # None
     /\ {"name", "expression", "importance"} \subseteq valueCalls.setters) =>
        LET x == valueCalls.importance[1]
            res == valueBuilt[1]
        IN  /\ res.ok
            /\ x < 0 => res.val.importance = 0
            /\ x > 10 /\ x # NaN => res.val.importance = 10
            /\ (0 <= x /\ x <= 10) => res.val.importance = x
            /\ 0 <= res.val.importance /\ res.val.importance <= 10
            /\ res.val.importance # NaN

\* C13: ValueBuilder::build succeeds exactly when name, importance and
\* expression were each set; otherwise it returns a missing-field error and
\* no Value; conflicts is optional and absent when it was never set.
C13_ValueRequired ==
    valueBuilt # None =>
        LET res == valueBuilt[1]
            set == valueCalls.setters
        IN  /\ res.ok <=> {"name", "importance", "expression"} \subseteq set
            /\ ~res.ok => res.err \in {"name is required",
                                       "importance is required",
                                       "expression is required"}
            /\ (res.ok /\ "conflicts" \notin set) => res.val.conflicts = None
            /\ (res.ok /\ "conflicts" \in set) => res.val.conflicts # None
\* build() with name, expression and conflicts set and importance never set
C13_Witness ==
    /\ valueBuilt = Some(Err("importance is required"))
    /\ valueCalls.setters = {"name", "expression", "conflicts"}

(***************************************************************************)
(* Properties of the serde data model.                                     *)
(***************************************************************************)
\* the number a JSON number stands for, in tenths
NumberOf(a) == IF a.t = "int" THEN 10 * a.v ELSE a.v
IsNumber(a) == a.t \in {"float", "int"}
\* the payload has a number under key k that lies outside the interval
OutsideUnit(j, k) ==
    IsObj(j) /\ HasKey(j, k) /\ IsNumber(j.v[k]) /\ ~InUnit(NumberOf(j.v[k]))
OutsideSigned(j, k) ==
    IsObj(j) /\ HasKey(j, k) /\ IsNumber(j.v[k]) /\ ~InSigned(NumberOf(j.v[k]))
\* the payload of a Personality carries a Value with such an importance
ValueOutside(j) ==
    /\ IsObj(j)
    /\ Present(j, "values")
    /\ j.v["values"].t = "arr"
    /\ \E n \in 1..Len(j.v["values"].v) : OutsideUnit(j.v["values"].v[n], "importance")
\* the steps that decoded a payload of the kind, each next to its payload
Decodings(kind) ==
    {i \in 2..Len(codec) : codec[i].op = "decode" /\ codec[i].kind = kind}

\* C14: decoding a Value whose importance lies outside [0, 1] fails, also
\* when the Value is nested in a Personality or a Soul payload.
C14_ValueDecodeRejects ==
    /\ \A i \in Decodings("Value") :
          OutsideUnit(codec[i - 1].out, "importance") => ~codec[i].out.ok
    /\ \A i \in Decodings("Personality") :
          ValueOutside(codec[i - 1].out) => ~codec[i].out.ok
    /\ \A i \in Decodings("Soul") :
          (/\ IsObj(codec[i - 1].out)
           /\ HasKey(codec[i - 1].out, "personality")
           /\ ValueOutside(codec[i - 1].out.v["personality"]))
             => ~codec[i].out.ok

\* C15: a Value whose importance is in [0, 1], with or without id and
\* conflicts, encoded to JSON and decoded again equals the original.
C15_ValueRoundTrip ==
    \A i \in 1..Len(codec) :
        (/\ codec[i].kind = "Value"
         /\ codec[i].op \in {"hold", "decode"}
         /\ codec[i].out.ok
         /\ InUnit(codec[i].out.val.importance)
         /\ Len(codec) >= i + 2)
            => codec[i + 2].out = codec[i].out
\* a Value with an id and two conflicts, one with an id, came back equal
C15_Witness ==
    /\ Len(codec) = 3
    /\ codec[1].op = "hold"
    /\ codec[1].kind = "Value"
    /\ codec[1].out.val.id = Some(UuidA)
    /\ codec[1].out.val.importance = 5
    /\ codec[1].out.val.conflicts # None
    /\ codec[1].out.val.conflicts # Some(<<>>)
    /\ codec[3].op = "decode"
    /\ codec[3].out = codec[1].out

\* C16: an EmotionalSignature payload decodes exactly when valence is in
\* [-1, 1] and intensity is in [0, 1]; what was decoded, encoded and decoded
\* again, has the same valence and intensity.
C16_SignatureDecode ==
    \A i \in Decodings("EmotionalSignature") :
        LET j == codec[i - 1].out
        IN  (/\ IsObj(j)
             /\ OptUuidOk(j, "id")
             /\ HasKey(j, "valence") /\ IsNumber(j.v["valence"])
             /\ HasKey(j, "intensity") /\ IsNumber(j.v["intensity"]))
            => /\ codec[i].out.ok <=>
                     /\ -10 <= NumberOf(j.v["valence"])
                     /\ NumberOf(j.v["valence"]) <= 10
                     /\ 0 <= NumberOf(j.v["intensity"])
                     /\ NumberOf(j.v["intensity"]) <= 10
               /\ codec[i].out.ok =>
                     /\ codec[i].out.val.valence = NumberOf(j.v["valence"])
                     /\ codec[i].out.val.intensity = NumberOf(j.v["intensity"])
               /\ (codec[i].out.ok /\ Len(codec) >= i + 2) =>
                     /\ codec[i + 2].out.ok
                     /\ codec[i + 2].out.val.valence = codec[i].out.val.valence
                     /\ codec[i + 2].out.val.intensity = codec[i].out.val.intensity
\* valence -1 and intensity 1, written as integers, decoded, encoded and
\* decoded again
C16_Witness ==
    /\ Len(codec) = 4
    /\ codec[1].kind = "EmotionalSignature"
    /\ codec[1].op = "receive"
    /\ codec[1].out.v["valence"] = JInt(-1)
    /\ codec[1].out.v["intensity"] = JInt(1)
    /\ codec[4].out.ok
    /\ codec[4].out.val.valence = -10

\* C17: decoding a Fragment fails when importance is outside [0, 1] or
\* emotional_valence is outside [-1, 1]; decoding a Memory fails when
\* importance_score, a nested fragment or the nested emotional_signature has
\* an out-of-range field; a failed decode yields the error and no record.
C17_NestedRejected ==
    /\ \A i \in Decodings("Fragment") :
          (\/ OutsideUnit(codec[i - 1].out, "importance")
           \/ OutsideSigned(codec[i - 1].out, "emotional_valence"))
             => codec[i].out = Err("decode")
    /\ \A i \in Decodings("Memory") :
          LET j == codec[i - 1].out
          IN  (/\ IsObj(j)
               /\ \/ OutsideUnit(j, "importance_score")
                  \/ /\ HasKey(j, "fragments")
                     /\ j.v["fragments"].t = "arr"
                     /\ \E n \in 1..Len(j.v["fragments"].v) :
                           \/ OutsideUnit(j.v["fragments"].v[n], "importance")
                           \/ OutsideSigned(j.v["fragments"].v[n],
                                            "emotional_valence")
                  \/ /\ HasKey(j, "emotional_signature")
                     /\ \/ OutsideSigned(j.v["emotional_signature"], "valence")
                        \/ OutsideUnit(j.v["emotional_signature"], "intensity"))
              => codec[i].out = Err("decode")
\* a Memory whose only fault is the importance of its second fragment
C17_Witness ==
    /\ Len(codec) = 2
    /\ codec[2].op = "decode"
    /\ codec[2].kind = "Memory"
    /\ codec[2].out = Err("decode")
    /\ IsObj(codec[1].out)
    /\ ~OutsideUnit(codec[1].out, "importance_score")
    /\ EmotionalSignatureOk(codec[1].out.v["emotional_signature"])
    /\ Len(codec[1].out.v["fragments"].v) = 2
    /\ FragmentOk(codec[1].out.v["fragments"].v[1])
    /\ OutsideUnit(codec[1].out.v["fragments"].v[2], "importance")

\* C18: VoiceBuilder::build succeeds exactly when style, tone, qualities and
\* patterns were all set, with the values passed; with any of them missing
\* it fails and returns no Voice.
C18_VoiceRequired ==
    voiceBuilt # None =>
        LET res == voiceBuilt[1]
        IN  /\ res.ok <=>
                  voiceSetters = {"style", "tone", "qualities", "patterns"}
            /\ ~res.ok => res.err \in {"style is required", "tone is required",
                                       "qualities is required",
                                       "patterns is required"}
            /\ res.ok => /\ res.val.style \in Styles
                         /\ res.val.tone \in Tones
                         /\ res.val.qualities \in QualityLists
                         /\ res.val.patterns \in PatternLists
\* build() with style, tone and qualities set and patterns never set
C18_Witness ==
    /\ voiceBuilt = Some(Err("patterns is required"))
    /\ voiceSetters = {"style", "tone", "qualities"}

\* the Option fields of each record type
OptionalFields ==
    [Entity |-> {"id", "gender", "age", "background", "expertise"},
     Trait |-> {"id", "expression_rules"},
     Value |-> {"id", "conflicts"},
     ValueConflict |-> {"id"},
     Voice |-> {"id"},
     Relationship |-> {"id"},
     Boundary |-> {"id"},
     Personality |-> {"id", "values", "voice", "relationship", "metadata"},
     Soul |-> {"id"},
     Memory |-> {"id"},
     EmotionalSignature |-> {"id"},
     MemoryMetadata |-> {"id"},
     Fragment |-> {"id"},
     Context |-> {"id"}]

\* C19: for every record type, the JSON written for an instance has no key
\* for an optional field that is absent (and so no null in its place).
C19_AbsentOmitted ==
    \A i \in 2..Len(codec) :
        (codec[i].op = "encode" /\ codec[i].kind \in RecordKinds) =>
            \A k \in OptionalFields[codec[i].kind] :
                codec[i - 1].out.val[k] = None => ~HasKey(codec[i].out, k)

\* the lowercase tag of each enum variant
ExpectedTag ==
    [Observation |-> "observation", Reflection |-> "reflection",
     Strict |-> "strict", Flexible |-> "flexible", Situational |-> "situational"]
ExpectedVariants ==
    [FragmentType |-> {"Observation", "Reflection"},
     EnforcementType |-> {"Strict", "Flexible", "Situational"}]

SoulDefaultsMade == {i \in 1..Len(made) : made[i].kind = "Soul"}

\* C21: SoulBuilder::build() always returns a Soul: its version is the last
\* version set, or "1.0" when none was; its entity and personality are the
\* ones supplied, or the default-constructed ones; its id is absent; and a
\* Soul built with no setter called equals every Soul::default() evaluated.
C21_SoulBuilt ==
    soulBuilt # None =>
        /\ soulBuilt[1].id = None
        /\ soulBuilt[1].version =
              (IF soulCalls.version = None THEN "1.0" ELSE soulCalls.version[1])
        /\ soulBuilt[1].entity =
              (IF soulCalls.entity = None THEN EntityDefault
               ELSE soulCalls.entity[1])
        /\ IF soulCalls.personality = None
           THEN \E d1, d2 \in 0..MaxDay :
                   soulBuilt[1].personality = PersonalityDefault(d1, d2)
           ELSE soulBuilt[1].personality = soulCalls.personality[1]
        /\ soulCalls = NoSoulCalls =>
              \A i \in SoulDefaultsMade : soulBuilt[1] = made[i].value

\* C22: default construction of Entity, Personality, Voice, Relationship and
\* Soul does not depend on when it is evaluated: any two default
\* constructions of one type are equal, and the personality of a default
\* Soul equals a default Personality.
C22_DefaultFixed ==
    \A i, j \in 1..Len(made) :
        /\ made[i].kind = made[j].kind => made[i].value = made[j].value
        /\ made[i].kind = "Soul" /\ made[j].kind = "Personality" =>
              made[i].value.personality = made[j].value

\* C23: in the Memory and Fragment builders every timestamp the caller did
\* not set (Fragment.timestamp, Memory.creation_date, Memory.last_accessed)
\* is the clock's reading when build() was called, not when the builder was
\* created.
C23_StampedAtBuild ==
    /\ fragmentBuilt # None /\ fragmentCalls.timestamp = None =>
          fragmentBuilt[1].timestamp = timestamp_millis(fragmentCalls.built[1])
    /\ memoryBuilt # None =>
          memoryBuilt[1].creation_date = timestamp_millis(memoryCalls.built[1])
    /\ memoryBuilt # None /\ "last_accessed" \notin memoryCalls.setters =>
          memoryBuilt[1].last_accessed = timestamp_millis(memoryCalls.built[1])

MemoryDefaultsMade == {i \in 1..Len(made) : made[i].kind = "Memory"}
\* the record carries the reading t as creation_date and as last_accessed
StampedAt(memory, t) ==
    /\ memory.creation_date # 0
    /\ memory.creation_date = t
    /\ memory.last_accessed = memory.creation_date

\* C24: a Memory obtained without an explicit last_accessed, from
\* Memory::default(), MemoryBuilder::new(text).build() or
\* Memory::builder().build(), has creation_date equal to its construction
\* time, never 0, and last_accessed equal to creation_date; importance_score
\* and the valence and intensity of the emotional signature are 0 unless set.
C24_MemoryFresh ==
    /\ \A i \in MemoryDefaultsMade :
          /\ \E d \in 0..MaxDay : StampedAt(made[i].value, timestamp_millis(d))
          /\ made[i].value.importance_score = 0
          /\ made[i].value.emotional_signature.valence = 0
          /\ made[i].value.emotional_signature.intensity = 0
    /\ memoryBuilt # None /\ "last_accessed" \notin memoryCalls.setters =>
          /\ \/ StampedAt(memoryBuilt[1], timestamp_millis(memoryCalls.created[1]))
             \/ StampedAt(memoryBuilt[1], timestamp_millis(memoryCalls.built[1]))
          /\ "importance_score" \notin memoryCalls.setters =>
                memoryBuilt[1].importance_score = 0
          /\ "emotional_signature" \notin memoryCalls.setters =>
                /\ memoryBuilt[1].emotional_signature.valence = 0
                /\ memoryBuilt[1].emotional_signature.intensity = 0

\* the arguments of the calls of one setter, in call order
RECURSIVE ArgsOf(_, _)
ArgsOf(log, setter) ==
    IF log = <<>> THEN <<>>
    ELSE LET rest == ArgsOf(Tail(log), setter)
         IN  IF Head(log).setter = setter THEN <<Head(log).arg>> \o rest
             ELSE rest
\* what the setter calls made so far amount to, whatever their interleaving:
\* the last strength given, and the rules added in call order
TraitExpected(log) ==
    LET strengths == ArgsOf(log.calls, "strength")
        rules == ArgsOf(log.calls, "add_expression_rule")
    IN  [trait_name |-> log.name,
         strength |-> IF strengths = <<>> THEN 5
                      ELSE strengths[Len(strengths)],
         expression_rules |-> IF rules = <<>> THEN None ELSE Some(rules)]
\* the fields of a builder a step has changed
Changed(before, after) == {f \in DOMAIN before : before[f] # after[f]}

KeysGiven == ArgsOf(soulgraphCalls, "api_key")
UrlsGiven == ArgsOf(soulgraphCalls, "base_url")
LastKey == KeysGiven[Len(KeysGiven)]
LastUrl == UrlsGiven[Len(UrlsGiven)]
ReturnedClient ==
    /\ ~soulgraphBuilt[1].panic
    /\ soulgraphBuilt[1].value.base_url = LastUrl

\* C26 as stated: build() panics with "Missing api key" when no key was
\* set, with "Missing base url" when a key but no URL was set, and in every
\* other case returns a client whose base_url is the last URL given.
C26_AsStated ==
    soulgraphBuilt # None =>
        IF KeysGiven = <<>> THEN soulgraphBuilt[1] = Panic("Missing api key")
        ELSE IF UrlsGiven = <<>>
             THEN soulgraphBuilt[1] = Panic("Missing base url")
             ELSE ReturnedClient

\* C26: build() panics with "Missing api key" when no key was set (also when
\* the URL is missing too), with "Missing base url" when a key but no URL was
\* set; with both set it panics, with neither of these messages, when the
\* last key holds a byte no header value may hold, and otherwise returns a
\* client made from the last key and the last URL given.  No client without
\* key or URL is ever returned.
C26_BuildOutcome ==
    soulgraphBuilt # None =>
        IF KeysGiven = <<>> THEN soulgraphBuilt[1] = Panic("Missing api key")
        ELSE IF UrlsGiven = <<>>
             THEN soulgraphBuilt[1] = Panic("Missing base url")
             ELSE IF LastKey \in UnprintableKeys
                  THEN /\ soulgraphBuilt[1].panic
                       /\ soulgraphBuilt[1].message \notin
                             {"Missing api key", "Missing base url"}
                  ELSE /\ ReturnedClient
                       /\ soulgraphBuilt[1].value.api_key = LastKey
\* a client was returned after the base URL was given twice, differently
C26_Witness ==
    /\ soulgraphBuilt # None
    /\ ~soulgraphBuilt[1].panic
    /\ Len(UrlsGiven) = 2
    /\ UrlsGiven[1] # UrlsGiven[2]
    /\ soulgraphBuilt[1].value.base_url = UrlsGiven[2]

ExpectedMethod ==
    [get |-> "GET", create |-> "POST", update |-> "PATCH", delete |-> "DELETE"]

WireFields(kind, x) ==
    IF kind = "Memory"
    THEN <<x.id, x.memory, x.importance_score, x.emotional_signature.valence,
           x.emotional_signature.intensity>>
    ELSE <<x.id, x.content, x.importance, x.emotional_valence>>

\* C29: every Memory built by MemoryBuilder and every Fragment built by
\* FragmentBuilder, whatever numbers were passed to the numeric setters,
\* encodes to a value that decodes successfully, into a record with the same
\* id, text and numeric fields.
C29_BuiltDecodes ==
    (Len(codec) >= 3 /\ codec[1].op = "hold" /\ codec[3].op = "decode") =>
        /\ codec[3].out.ok
        /\ WireFields(codec[1].kind, codec[3].out.val) =
              WireFields(codec[1].kind, codec[1].out.val)

\* C30: every Personality handed to a caller has a non-empty traits list:
\* the default one, one built by PersonalityBuilder, the Ok result of
\* Personality::get / create / update, and the personality inside the Soul
\* that Soul::get / create returns.
C30_TraitsNonEmpty ==
    /\ \A d1, d2 \in 0..MaxDay : PersonalityDefault(d1, d2).traits # <<>>
    /\ (personalityBuilt # None /\ personalityBuilt[1].ok) =>
          personalityBuilt[1].val.traits # <<>>
    /\ \A c \in Done :
          LET call == calls[c][1]
              res == call.result[1]
          IN  (res.ok /\ call.op \in {"get", "create", "update"}) =>
                 /\ call.kind = "Personality" => res.val.traits # <<>>
                 /\ call.kind = "Soul" => res.val.personality.traits # <<>>

=============================================================================
